---- MODULE Spec2Model ----
(***************************************************************************)
(* Model of the traffic-light controller (src/controller.py, src/state.py, *)
(* src/modes.py, src/monitors.py).                                         *)
(*                                                                         *)
(* Tasks: the control loop (TrafficLightController.run), the HTTP control  *)
(* surface (set_mode / set_manual_color requests), shutdown(), and the     *)
(* five monitor threads.  The state lock is a threading.RLock.             *)
(*                                                                         *)
(* Time is kept in centiseconds.  last_state_change_time is represented by *)
(* its age (time() - last_state_change_time, saturating at ElapsedCap) and *)
(* a stamp bit that flips on every assignment to the field, so that an     *)
(* assignment is visible even when no time has passed.                     *)
(***************************************************************************)
EXTENDS Integers, Sequences, FiniteSets, TLC

\* ------------------------------------------------------------------ bounds
\* environment events in one run: HTTP control requests, monitor polls and
\* datagrams, LED writes that raise, the shutdown signal
MaxEvents == 2
\* the same budget for the specification of mode requests alone
ModeEvents == 3
\* polls in the specification of the pollers
ProducerEvents == 2
\* requests in the specification of the manual override
ManualEvents == 3
\* mode requests in the specification of the auto cycle
AutoEvents == 2
\* LED writes that raise, in the specification of the handlers
HandlerEvents == 1

\* --------------------------------------------------------------- constants
AUTO_GREEN_DURATION      == 2000
AUTO_YELLOW_DURATION     == 300
AUTO_RED_DURATION        == 2000
AUTO_RED_YELLOW_DURATION == 200
EMERGENCY_BLINK_INTERVAL == 50
PARTY_BLINK_INTERVAL     == 8
CONTROLLER_LOOP_SLEEP    == 20
RACING_STEP_DELAY        == 100
RACING_FOLLOW_INTERVAL   == 5
BLINK_INTERVAL           == 50
ElapsedCap               == 2001
NoSleep                  == -1     \* a handler returning None
NO_TRAIN                 == -1     \* s_bahn_minutes_away sentinel

Modes == {"auto", "party", "emergency", "sos", "s_bahn", "biergarten",
          "racing", "space", "stau", "manual", "idle"}

HandlerModes == {"auto", "party", "emergency", "sos", "s_bahn", "biergarten",
                 "racing", "space", "stau"}

Colors == {"red", "yellow", "green", "off", "red_and_yellow", "all_on",
           "green-yellow"}

Leds == {"red", "yellow", "green"}

\* tags a control request may carry: the enumerations plus one tag outside each
ReqModes  == Modes \cup {"disco"}
ReqColors == {"red", "green", "off", "purple"}

PartyColors == {"red", "yellow", "green", "off"}

Min(a, b) == IF a < b THEN a ELSE b

\* state.py 36-55: the SOS pattern, durations in centiseconds
sos_pattern ==
  << [state |-> "all_on", duration |-> 20], [state |-> "off", duration |-> 20],
     [state |-> "all_on", duration |-> 20], [state |-> "off", duration |-> 20],
     [state |-> "all_on", duration |-> 20], [state |-> "off", duration |-> 40],
     [state |-> "all_on", duration |-> 60], [state |-> "off", duration |-> 20],
     [state |-> "all_on", duration |-> 60], [state |-> "off", duration |-> 20],
     [state |-> "all_on", duration |-> 60], [state |-> "off", duration |-> 40],
     [state |-> "all_on", duration |-> 20], [state |-> "off", duration |-> 20],
     [state |-> "all_on", duration |-> 20], [state |-> "off", duration |-> 20],
     [state |-> "all_on", duration |-> 20], [state |-> "off", duration |-> 150] >>

VARIABLES
  \* SharedState (state.py)
  target_mode, target_manual_color, current_mode, current_color,
  last_state_change_time, mode_state,
  s_bahn_minutes_away, weather_status, iracing_light_status,
  space_weather_status, traffic_status,
  lock, running,
  \* LightHardware (controller.py): the three LEDs, and the last colour command
  \* the sink completed
  leds, sink_color,
  \* control loop: position, locals of run(), the set_light_state call in
  \* progress and the last completed one
  loop_pc, loop_sleep, elapsed, call, cont, last_call,
  \* what the transition step of the current iteration found and did
  trans,
  \* the colour and mode_state the handler of the current iteration was
  \* dispatched on
  disp,
  \* shutdown(): position and the LED writes still to make
  sd_pc, sd_ops,
  \* monitor threads: position of each
  mon_pc,
  \* how the last fetch of each monitor ended, and whether its store replaced
  \* data
  fetched,
  \* the last request the HTTP control surface served, with the current_mode
  \* and current_color it found
  last_req,
  \* environment events still allowed
  envLeft

stateVars == << target_mode, target_manual_color, current_mode, current_color,
                last_state_change_time, mode_state, running >>
signalVars == << s_bahn_minutes_away, weather_status, iracing_light_status,
                 space_weather_status, traffic_status >>
hwVars == << leds, sink_color >>
loopVars == << loop_pc, loop_sleep, elapsed, call, cont, last_call, trans,
              disp >>
sdVars == << sd_pc, sd_ops >>

vars == << target_mode, target_manual_color, current_mode, current_color,
           last_state_change_time, mode_state,
           s_bahn_minutes_away, weather_status, iracing_light_status,
           space_weather_status, traffic_status, lock, running,
           leds, sink_color,
           loop_pc, loop_sleep, elapsed, call, cont, last_call, trans, disp,
           sd_pc, sd_ops, mon_pc, fetched, last_req, envLeft >>


\* ------------------------------------------------------------ data values
NoWeather == [has |-> FALSE, temp |-> 0, condition |-> ""]
NoSpace   == [has |-> FALSE, kp_index |-> 0, condition |-> ""]
NoTraffic == [has |-> FALSE, avg_delay |-> 0, commute_time |-> ""]

\* the set_light_state call in progress: its argument, the LED writes still to
\* make, current_color and last_state_change_time when it was made, whether it
\* invoked hardware.set_state, whether that returned normally
NoCall == [active |-> FALSE, color |-> "", ops |-> << >>, before |-> "",
           lsct |-> << >>, wrote |-> FALSE, ok |-> TRUE]
NoCont == [post |-> << >>, stamp |-> FALSE, sleep |-> NoSleep, ret |-> ""]
\* the previous set_light_state call: its argument, whether it wrote the sink,
\* whether the write returned normally, where the caller continued
NoLastCall == [color |-> "", wrote |-> FALSE, ok |-> FALSE, ret |-> ""]

\* no transition in this iteration (yet); else the mode, colour and mode_state
\* the transition started from
NoTrans == [done |-> FALSE, mode |-> "", color |-> "", ms |-> << >>]

\* no handler dispatched in this iteration (yet)
NoDisp == [done |-> FALSE, color |-> "", ms |-> << >>]

NoFetch == [done |-> FALSE, failed |-> FALSE, overwrote |-> FALSE]
NoReq == [op |-> "", arg |-> "", mode |-> "", color |-> "", target |-> ""]
Unlocked == [owner |-> "none", count |-> 0]

\* --------------------------------------------------------------- hardware
\* controller.py 59-67: the LEDs a colour tag asserts, in the order written
OnOps(color) ==
  CASE color = "red"            -> << <<"red", TRUE>> >>
    [] color = "yellow"         -> << <<"yellow", TRUE>> >>
    [] color = "green"          -> << <<"green", TRUE>> >>
    [] color = "red_and_yellow" -> << <<"red", TRUE>>, <<"yellow", TRUE>> >>
    [] color = "all_on"         -> << <<"red", TRUE>>, <<"yellow", TRUE>>,
                                      <<"green", TRUE>> >>
    [] color = "green-yellow"   -> << <<"green", TRUE>>, <<"yellow", TRUE>> >>
    [] OTHER                    -> << >>

\* controller.py 68-69: all_off, one LED write after the other
AllOffOps == << <<"red", FALSE>>, <<"yellow", FALSE>>, <<"green", FALSE>> >>

\* controller.py 57-67: set_state clears the three LEDs, then asserts the subset
SetStateOps(color) == AllOffOps \o OnOps(color)

\* one LED write (MockLED.on / MockLED.off, HardwareLED.on / off)
LedWrite(l, op) == [l EXCEPT ![op[1]] = op[2]]

AllLedsOff == \A l \in Leds : ~leds[l]

\* ------------------------------------------------------------------- time
\* last_state_change_time = time()
Stamped(lsct) == [age |-> 0, stamp |-> 1 - lsct.stamp]

\* the instants at which the loop may wake up: one default tick after a stamp
\* (no threshold of a time-driven handler passed yet) and past every threshold
WakeAges == {CONTROLLER_LOOP_SLEEP, ElapsedCap}

\* --------------------------------------------------------- handler results
\* what a handler (or a mode-entry action) does: the mode_state it writes before
\* its set_light_state call, the colour it requests, the mode_state it writes
\* after the call, whether it then stamps last_state_change_time, and what it
\* returns
NoOp(ms) == [call |-> FALSE, color |-> "", pre |-> ms, post |-> ms,
             stamp |-> FALSE, sleep |-> NoSleep]
SetColor(color, pre, post, stamp, sleep) ==
  [call |-> TRUE, color |-> color, pre |-> pre, post |-> post,
   stamp |-> stamp, sleep |-> sleep]

\* an auto handler that leaves a phase as soon as its duration is reached
handle_auto_mode_AtThreshold(c, el, ms) ==
  IF c = "green" /\ el >= AUTO_GREEN_DURATION
    THEN SetColor("yellow", ms, [ms EXCEPT !.next_auto_state = "red"], TRUE, NoSleep)
  ELSE IF c = "yellow" /\ el >= AUTO_YELLOW_DURATION
    THEN SetColor(ms.next_auto_state, ms, ms, TRUE, NoSleep)
  ELSE IF c = "red" /\ el >= AUTO_RED_DURATION
    THEN SetColor("red_and_yellow", ms, [ms EXCEPT !.next_auto_state = "green"],
                  TRUE, NoSleep)
  ELSE IF c = "red_and_yellow" /\ el >= AUTO_RED_YELLOW_DURATION
    THEN SetColor(ms.next_auto_state, ms, ms, TRUE, NoSleep)
  ELSE NoOp(ms)

\* an auto handler that does not remember what follows yellow
handle_auto_mode_KeepsNext(c, el, ms) ==
  IF c = "green" /\ el > AUTO_GREEN_DURATION
    THEN SetColor("yellow", ms, ms, TRUE, NoSleep)
  ELSE IF c = "yellow" /\ el > AUTO_YELLOW_DURATION
    THEN SetColor(ms.next_auto_state, ms, ms, TRUE, NoSleep)
  ELSE IF c = "red" /\ el > AUTO_RED_DURATION
    THEN SetColor("red_and_yellow", ms, [ms EXCEPT !.next_auto_state = "green"],
                  TRUE, NoSleep)
  ELSE IF c = "red_and_yellow" /\ el > AUTO_RED_YELLOW_DURATION
    THEN SetColor(ms.next_auto_state, ms, ms, TRUE, NoSleep)
  ELSE NoOp(ms)

\* modes.py 10-20
handle_auto_mode(c, el, ms) ==
  IF c = "green" /\ el > AUTO_GREEN_DURATION
    THEN SetColor("yellow", ms, [ms EXCEPT !.next_auto_state = "red"], TRUE, NoSleep)
  ELSE IF c = "yellow" /\ el > AUTO_YELLOW_DURATION
    THEN SetColor(ms.next_auto_state, ms, ms, TRUE, NoSleep)
  ELSE IF c = "red" /\ el > AUTO_RED_DURATION
    THEN SetColor("red_and_yellow", ms, [ms EXCEPT !.next_auto_state = "green"],
                  TRUE, NoSleep)
  ELSE IF c = "red_and_yellow" /\ el > AUTO_RED_YELLOW_DURATION
    THEN SetColor(ms.next_auto_state, ms, ms, TRUE, NoSleep)
  ELSE NoOp(ms)

\* a party handler that stamps last_state_change_time after its colour request
handle_party_mode_Stamping(rnd, ms) ==
  SetColor(rnd, ms, ms, TRUE, PARTY_BLINK_INTERVAL)

\* modes.py 22-23
handle_party_mode(rnd, ms) ==
  SetColor(rnd, ms, ms, FALSE, PARTY_BLINK_INTERVAL)

\* modes.py 25-26
handle_emergency_mode(c, ms) ==
  SetColor(IF c # "yellow" THEN "yellow" ELSE "off", ms, ms, FALSE,
           EMERGENCY_BLINK_INTERVAL)

\* an sos handler that advances two steps at a time
handle_sos_mode_SkipsStep(el, ms) ==
  LET idx  == ms.sos_index
      step == sos_pattern[idx + 1]
      nxt  == (idx + 2) % Len(sos_pattern)
      ms2  == [ms EXCEPT !.sos_index = nxt]
  IN  IF el > step.duration
        THEN SetColor(sos_pattern[nxt + 1].state, ms2, ms2, TRUE, NoSleep)
        ELSE NoOp(ms)

\* modes.py 28-32
handle_sos_mode(el, ms) ==
  LET idx  == ms.sos_index
      step == sos_pattern[idx + 1]
      nxt  == (idx + 1) % Len(sos_pattern)
      ms2  == [ms EXCEPT !.sos_index = nxt]
  IN  IF el > step.duration
        THEN SetColor(sos_pattern[nxt + 1].state, ms2, ms2, TRUE, NoSleep)
        ELSE NoOp(ms)

\* a blink that switches every colour but off to off
BlinkRed_FromOff(c) == IF c = "off" THEN "red" ELSE "off"

\* the red/off blink of the degraded branches (modes.py 36, 44, 61, 67)
BlinkRed(c) == IF c # "red" THEN "red" ELSE "off"

\* an S-Bahn handler for which 9 minutes is still red
handle_s_bahn_mode_LateRed(minutes, c, ms) ==
  IF minutes = NO_TRAIN THEN SetColor(BlinkRed(c), ms, ms, FALSE, BLINK_INTERVAL)
  ELSE IF minutes <= 9 THEN SetColor("red", ms, ms, FALSE, NoSleep)
  ELSE IF minutes <= 12 THEN SetColor("yellow", ms, ms, FALSE, NoSleep)
  ELSE SetColor("green", ms, ms, FALSE, NoSleep)

\* modes.py 34-40
handle_s_bahn_mode(minutes, c, ms) ==
  IF minutes = NO_TRAIN THEN SetColor(BlinkRed(c), ms, ms, FALSE, BLINK_INTERVAL)
  ELSE IF minutes < 9 THEN SetColor("red", ms, ms, FALSE, NoSleep)
  ELSE IF minutes = 9
    THEN SetColor(IF c # "yellow" THEN "yellow" ELSE "off", ms, ms, FALSE,
                  BLINK_INTERVAL)
  ELSE IF minutes <= 12 THEN SetColor("yellow", ms, ms, FALSE, NoSleep)
  ELSE SetColor("green", ms, ms, FALSE, NoSleep)

\* 'Rain' in cond: substring test on the condition strings the model uses
Contains(cond, word) ==
  \/ cond = word
  \/ cond = "Light Rain" /\ word = "Rain"

\* modes.py 42-47
handle_biergarten_mode(w, hour, c, ms) ==
  IF ~w.has THEN SetColor(BlinkRed(c), ms, ms, FALSE, BLINK_INTERVAL)
  ELSE IF hour < 16 \/ w.temp < 15 \/ Contains(w.condition, "Rain")
          \/ Contains(w.condition, "Snow")
    THEN SetColor("red", ms, ms, FALSE, NoSleep)
  ELSE IF w.temp < 18 \/ Contains(w.condition, "Clouds")
    THEN SetColor("yellow", ms, ms, FALSE, NoSleep)
  ELSE SetColor("green", ms, ms, FALSE, NoSleep)

\* a racing handler that passes the status on as it is, black included
handle_racing_mode_RawStatus(el, live_status, ms) ==
  LET step == ms.race_step
      adv  == [ms EXCEPT !.race_step = step + 1]
  IN  IF step < 4
        THEN IF step = 0 /\ el > RACING_STEP_DELAY
               THEN SetColor("red", ms, adv, TRUE, NoSleep)
             ELSE IF step = 1 /\ el > RACING_STEP_DELAY
               THEN SetColor("red_and_yellow", ms, adv, TRUE, NoSleep)
             ELSE IF step = 2 /\ el > RACING_STEP_DELAY
               THEN SetColor("all_on", ms, adv, TRUE, NoSleep)
             ELSE IF step = 3 /\ el > RACING_STEP_DELAY
               THEN SetColor("off", ms, adv, TRUE, NoSleep)
             ELSE NoOp(ms)
        ELSE SetColor(live_status, ms, ms, FALSE, RACING_FOLLOW_INTERVAL)

\* a racing handler that goes on counting while it follows the live status
handle_racing_mode_CountsOn(el, live_status, ms) ==
  LET step == ms.race_step
      adv  == [ms EXCEPT !.race_step = step + 1]
  IN  IF step < 4
        THEN IF step = 0 /\ el > RACING_STEP_DELAY
               THEN SetColor("red", ms, adv, TRUE, NoSleep)
             ELSE IF step = 1 /\ el > RACING_STEP_DELAY
               THEN SetColor("red_and_yellow", ms, adv, TRUE, NoSleep)
             ELSE IF step = 2 /\ el > RACING_STEP_DELAY
               THEN SetColor("all_on", ms, adv, TRUE, NoSleep)
             ELSE IF step = 3 /\ el > RACING_STEP_DELAY
               THEN SetColor("off", ms, adv, TRUE, NoSleep)
             ELSE NoOp(ms)
        ELSE SetColor(IF live_status # "black" THEN live_status ELSE "off",
                      ms, adv, FALSE, RACING_FOLLOW_INTERVAL)

\* modes.py 49-57
handle_racing_mode(el, live_status, ms) ==
  LET step == ms.race_step
      adv  == [ms EXCEPT !.race_step = step + 1]
  IN  IF step < 4
        THEN IF step = 0 /\ el > RACING_STEP_DELAY
               THEN SetColor("red", ms, adv, TRUE, NoSleep)
             ELSE IF step = 1 /\ el > RACING_STEP_DELAY
               THEN SetColor("red_and_yellow", ms, adv, TRUE, NoSleep)
             ELSE IF step = 2 /\ el > RACING_STEP_DELAY
               THEN SetColor("all_on", ms, adv, TRUE, NoSleep)
             ELSE IF step = 3 /\ el > RACING_STEP_DELAY
               THEN SetColor("off", ms, adv, TRUE, NoSleep)
             ELSE NoOp(ms)
        ELSE SetColor(IF live_status # "black" THEN live_status ELSE "off",
                      ms, ms, FALSE, RACING_FOLLOW_INTERVAL)

\* a space handler that shows red, without blinking, in a storm
handle_space_mode_SolidRed(sw, c, ms) ==
  IF ~sw.has \/ sw.kp_index >= 5
    THEN SetColor("red", ms, ms, FALSE, BLINK_INTERVAL)
  ELSE IF sw.kp_index = 4 THEN SetColor("yellow", ms, ms, FALSE, NoSleep)
  ELSE SetColor("green", ms, ms, FALSE, NoSleep)

\* modes.py 59-63
handle_space_mode(sw, c, ms) ==
  IF ~sw.has \/ sw.kp_index >= 5
    THEN SetColor(BlinkRed(c), ms, ms, FALSE, BLINK_INTERVAL)
  ELSE IF sw.kp_index = 4 THEN SetColor("yellow", ms, ms, FALSE, NoSleep)
  ELSE SetColor("green", ms, ms, FALSE, NoSleep)

\* a stau handler for which a delay of exactly 45 and of exactly 20 is over
\* the threshold
handle_stau_mode_AtThreshold(tr, c, ms) ==
  IF ~tr.has THEN SetColor(BlinkRed(c), ms, ms, FALSE, BLINK_INTERVAL)
  ELSE IF tr.avg_delay >= 45 THEN SetColor("red", ms, ms, FALSE, NoSleep)
  ELSE IF tr.avg_delay >= 20 THEN SetColor("yellow", ms, ms, FALSE, NoSleep)
  ELSE SetColor("green", ms, ms, FALSE, NoSleep)

\* modes.py 65-70
handle_stau_mode(tr, c, ms) ==
  IF ~tr.has THEN SetColor(BlinkRed(c), ms, ms, FALSE, BLINK_INTERVAL)
  ELSE IF tr.avg_delay > 45 THEN SetColor("red", ms, ms, FALSE, NoSleep)
  ELSE IF tr.avg_delay > 20 THEN SetColor("yellow", ms, ms, FALSE, NoSleep)
  ELSE SetColor("green", ms, ms, FALSE, NoSleep)

\* an entry action that leaves sos_index and race_step as it finds them
EntryAction_KeepsPosition(new_mode, ms) ==
  IF new_mode = "auto"
    THEN SetColor("red", ms, [ms EXCEPT !.next_auto_state = "red_and_yellow"],
                  FALSE, NoSleep)
  ELSE IF new_mode = "sos"
    THEN SetColor("off", ms, ms, FALSE, NoSleep)
  ELSE IF new_mode = "racing"
    THEN SetColor("off", ms, ms, FALSE, NoSleep)
  ELSE IF new_mode = "idle"
    THEN SetColor("off", ms, ms, FALSE, NoSleep)
  ELSE NoOp(ms)

\* an entry action that shows the state of step 0 when sos is entered
EntryAction_SosStepZero(new_mode, ms) ==
  IF new_mode = "auto"
    THEN SetColor("red", ms, [ms EXCEPT !.next_auto_state = "red_and_yellow"],
                  FALSE, NoSleep)
  ELSE IF new_mode = "sos"
    THEN SetColor("all_on", [ms EXCEPT !.sos_index = 0],
                  [ms EXCEPT !.sos_index = 0], FALSE, NoSleep)
  ELSE IF new_mode = "racing"
    THEN SetColor("off", [ms EXCEPT !.race_step = 0],
                  [ms EXCEPT !.race_step = 0], FALSE, NoSleep)
  ELSE IF new_mode = "idle"
    THEN SetColor("off", ms, ms, FALSE, NoSleep)
  ELSE NoOp(ms)

\* an entry action that leaves the lamp as it is when auto is entered
EntryAction_AutoKeepsColor(new_mode, ms) ==
  IF new_mode = "auto"
    THEN NoOp([ms EXCEPT !.next_auto_state = "red_and_yellow"])
  ELSE IF new_mode = "sos"
    THEN SetColor("off", [ms EXCEPT !.sos_index = 0],
                  [ms EXCEPT !.sos_index = 0], FALSE, NoSleep)
  ELSE IF new_mode = "racing"
    THEN SetColor("off", [ms EXCEPT !.race_step = 0],
                  [ms EXCEPT !.race_step = 0], FALSE, NoSleep)
  ELSE IF new_mode = "idle"
    THEN SetColor("off", ms, ms, FALSE, NoSleep)
  ELSE NoOp(ms)

\* an entry action that leaves the lamp as it is when idle is entered
EntryAction_IdleKeepsColor(new_mode, ms) ==
  IF new_mode = "auto"
    THEN SetColor("red", ms, [ms EXCEPT !.next_auto_state = "red_and_yellow"],
                  FALSE, NoSleep)
  ELSE IF new_mode = "sos"
    THEN SetColor("off", [ms EXCEPT !.sos_index = 0],
                  [ms EXCEPT !.sos_index = 0], FALSE, NoSleep)
  ELSE IF new_mode = "racing"
    THEN SetColor("off", [ms EXCEPT !.race_step = 0],
                  [ms EXCEPT !.race_step = 0], FALSE, NoSleep)
  ELSE NoOp(ms)

\* controller.py 245-255: the mode-entry action of _transition_to_mode
EntryAction(new_mode, ms) ==
  IF new_mode = "auto"
    THEN SetColor("red", ms, [ms EXCEPT !.next_auto_state = "red_and_yellow"],
                  FALSE, NoSleep)
  ELSE IF new_mode = "sos"
    THEN SetColor("off", [ms EXCEPT !.sos_index = 0],
                  [ms EXCEPT !.sos_index = 0], FALSE, NoSleep)
  ELSE IF new_mode = "racing"
    THEN SetColor("off", [ms EXCEPT !.race_step = 0],
                  [ms EXCEPT !.race_step = 0], FALSE, NoSleep)
  ELSE IF new_mode = "idle"
    THEN SetColor("off", ms, ms, FALSE, NoSleep)
  ELSE NoOp(ms)


\* controller.py 222: self.mode_handlers.get(current_mode), applied to the state;
\* rnd is random.choice's pick, hour is datetime.now().hour
Handler(mode, rnd, hour) ==
  CASE mode = "auto"       -> handle_auto_mode(current_color, elapsed, mode_state)
    [] mode = "party"      -> handle_party_mode(rnd, mode_state)
    [] mode = "emergency"  -> handle_emergency_mode(current_color, mode_state)
    [] mode = "sos"        -> handle_sos_mode(elapsed, mode_state)
    [] mode = "s_bahn"     -> handle_s_bahn_mode(s_bahn_minutes_away, current_color,
                                                 mode_state)
    [] mode = "biergarten" -> handle_biergarten_mode(weather_status, hour,
                                                     current_color, mode_state)
    [] mode = "racing"     -> handle_racing_mode(elapsed, iracing_light_status,
                                                 mode_state)
    [] mode = "space"      -> handle_space_mode(space_weather_status, current_color,
                                                mode_state)
    [] mode = "stau"       -> handle_stau_mode(traffic_status, current_color,
                                               mode_state)
    [] OTHER               -> NoOp(mode_state)

Hours == {15, 16}

\* a set_mode that toggles on the pending target instead of the active mode
SetModeTarget_OnTarget(cur_mode, mode) ==
  IF target_mode = mode THEN "idle" ELSE mode

\* a set_mode that toggles off a mode that is active or already requested
SetModeTarget_Flip(cur_mode, mode) ==
  IF cur_mode = mode \/ target_mode = mode THEN "idle" ELSE mode

\* controller.py 154-158: the target a set_mode request leaves
SetModeTarget(cur_mode, mode) == IF cur_mode = mode THEN "idle" ELSE mode

\* a set_manual_color that toggles off whenever the lamp shows the colour,
\* whatever the active mode
ManualTarget_AnyMode(cur_mode, cur_color, color) ==
  IF cur_color = color THEN "off" ELSE color

\* controller.py 170-173: the manual colour a set_manual_color request leaves
ManualTarget(cur_mode, cur_color, color) ==
  IF cur_mode = "manual" /\ cur_color = color THEN "off" ELSE color

\* ---------------------------------------------------------------- monitors
Monitors == {"s_bahn", "weather", "space", "traffic", "iracing"}

\* monitors.py 163: the datagram payloads the listener accepts
ValidDatagrams == {"red", "yellow", "green", "black", "green-yellow", "all_on"}

\* monitors.py 171: str.strip() drops the white space at both ends of the text
RECURSIVE Strip(_)
Strip(s) ==
  IF s # << >> /\ Head(s) \in {" ", "\n"} THEN Strip(Tail(s))
  ELSE IF s # << >> /\ s[Len(s)] \in {" ", "\n"}
       THEN Strip(SubSeq(s, 1, Len(s) - 1))
       ELSE s

\* monitors.py 171-172, 177-178: `color = data.decode('utf-8').strip()`, the
\* text the listener compares with the valid colours; "" stands for a text
\* that is no single word, and for no text at all when decode raises on
\* the byte "\\xff"
Color(d) ==
  IF (\A i \in DOMAIN d : d[i] # "\\xff") /\ Len(Strip(d)) = 1
  THEN Strip(d)[1] ELSE ""

\* monitors.py 104-109: the condition fetch_space_weather_data derives from Kp
SpaceCondition(kp) == IF kp >= 5 THEN "Storm" ELSE IF kp = 4 THEN "Active"
                      ELSE "Quiet"

Weather(temp, condition) == [has |-> TRUE, temp |-> temp, condition |-> condition]
Space(kp) == [has |-> TRUE, kp_index |-> kp, condition |-> SpaceCondition(kp)]
Traffic(delay) == [has |-> TRUE, avg_delay |-> delay, commute_time |-> "35 mins"]

\* what one poll of monitor m can bring: the value it stores, "no data" on any
\* failure (monitors.py 31-34, 55, 77-81, 100-101, 110-111, 142-147); for the
\* listener, the payload of a datagram: the sequence of its pieces, a piece
\* being a word, a white-space character or a byte that is not UTF-8
PollResults(m) ==
  CASE m = "s_bahn"  -> {NO_TRAIN, 9, 13}
    [] m = "weather" -> {NoWeather, Weather(18, "Clear")}
    [] m = "space"   -> {NoSpace, Space(4)}
    [] m = "traffic" -> {NoTraffic, Traffic(46)}
    [] m = "iracing" -> {<< "red" >>, << " ", "red", "\n" >>, << "blue" >>,
                         << "red", " ", "green" >>, << "\n" >>, << "\\xff" >>}

\* how a fetch can end: with a response that parses, or with a timeout, a
\* transport error or a payload that does not parse (monitors.py 31-32, 80-81,
\* 110-111, 142-147); the listener's recvfrom returns a datagram
FetchOutcomes == {"ok", "timeout", "error", "malformed"}
OutcomesOf(m) == IF m = "iracing" THEN {"ok"} ELSE FetchOutcomes

\* the value a monitor stores when its fetch brought nothing (monitors.py 64:
\* -1; 79, 81, 99-100, 111, 147: {})
NoData(m) ==
  CASE m = "s_bahn"  -> NO_TRAIN
    [] m = "weather" -> NoWeather
    [] m = "space"   -> NoSpace
    [] m = "traffic" -> NoTraffic

\* the signal field monitor m stores into (monitors.py 64, 90, 117, 156, 174)
SignalOf(m) ==
  CASE m = "s_bahn"  -> s_bahn_minutes_away
    [] m = "weather" -> weather_status
    [] m = "space"   -> space_weather_status
    [] m = "traffic" -> traffic_status
    [] m = "iracing" -> iracing_light_status

\* a monitor that keeps what it has when its fetch fails
Fetch_KeepsLast(m, o) == IF o = "ok" THEN PollResults(m) ELSE {SignalOf(m)}

\* what a fetch that ended with outcome o makes the monitor store
Fetch(m, o) == IF o = "ok" THEN PollResults(m) ELSE {NoData(m)}

\* the field of poller m holds data
HasData(m) ==
  CASE m = "s_bahn"  -> s_bahn_minutes_away # NO_TRAIN
    [] m = "weather" -> weather_status.has
    [] m = "space"   -> space_weather_status.has
    [] m = "traffic" -> traffic_status.has
    [] m = "iracing" -> FALSE

\* the record of a fetch of m that ended with outcome o
Fetched(m, o) ==
  [fetched EXCEPT ![m] = [done |-> TRUE, failed |-> o # "ok",
                          overwrote |-> HasData(m)]]

\* ------------------------------------------------------------------- Init
\* state.py 17-66 after SharedState(); the LEDs after the start-up test sequence
Constructed ==
  /\ target_mode = "auto"
  /\ target_manual_color = "off"
  /\ current_mode = "auto"
  /\ current_color = "unknown"
  /\ last_state_change_time = [age |-> 0, stamp |-> 0]
  /\ mode_state = [next_auto_state |-> "green", sos_index |-> 0, race_step |-> 0]
  /\ s_bahn_minutes_away = NO_TRAIN
  /\ weather_status = NoWeather
  /\ iracing_light_status = "black"
  /\ space_weather_status = NoSpace
  /\ traffic_status = NoTraffic
  /\ lock = Unlocked
  /\ running = TRUE
  /\ leds = [l \in Leds |-> FALSE]
  /\ sink_color = "unknown"
  /\ loop_pc = "start"
  /\ loop_sleep = NoSleep
  /\ elapsed = 0
  /\ call = NoCall
  /\ cont = NoCont
  /\ last_call = NoLastCall
  /\ trans = NoTrans
  /\ disp = NoDisp
  /\ sd_pc = "idle"
  /\ sd_ops = << >>
  /\ mon_pc = [m \in Monitors |-> "top"]
  /\ fetched = [m \in Monitors |-> NoFetch]
  /\ last_req = NoReq

Init == Constructed /\ envLeft = MaxEvents

\* ------------------------------------------------ the RLock (state.py 63)
\* a plain threading.Lock: the owner too must wait for it
CanAcquire_NonReentrant(t) == lock.owner = "none"

\* acquire by task t: free, or already held by t (re-entrant)
CanAcquire(t) == lock.owner = "none" \/ lock.owner = t
Acquired(t) == [owner |-> t, count |-> lock.count + 1]
Released == IF lock.count = 1 THEN Unlocked
            ELSE [lock EXCEPT !.count = lock.count - 1]

\* ------------------------------------------------------- set_light_state
\* a call of set_light_state(color) by the control loop, made when
\* last_state_change_time is `lsct`; `post`, `stamp`, `sleep`
\* are what the caller does after the call returns, `ret` where it continues
StartCall(color, lsct, post, stamp, sleep, ret) ==
  /\ call' = [active |-> TRUE, color |-> color, ops |-> << >>,
              before |-> current_color, lsct |-> lsct,
              wrote |-> FALSE, ok |-> TRUE]
  /\ cont' = [post |-> post, stamp |-> stamp, sleep |-> sleep, ret |-> ret]
  /\ loop_pc' = "sls"

\* set_light_state without the `current_color == color` early return
SlsEnter_NoSkip ==
  /\ loop_pc = "sls"
  /\ CanAcquire("loop")
  /\ lock' = Acquired("loop")
  /\ call' = [call EXCEPT !.ops = SetStateOps(call.color), !.wrote = TRUE]
  /\ loop_pc' = "sls_hw"
  /\ UNCHANGED << last_req, stateVars, signalVars, hwVars, loop_sleep, elapsed, cont,
                  last_call, trans, disp, sdVars, mon_pc, fetched, envLeft >>

\* controller.py 133-137: take the lock again; return at once when the colour is
\* already shown, else begin hardware.set_state(color)
SlsEnter ==
  /\ loop_pc = "sls"
  /\ CanAcquire("loop")
  /\ IF current_color = call.color
       THEN /\ loop_pc' = "ret"
            /\ UNCHANGED << lock, call >>
       ELSE /\ lock' = Acquired("loop")
            /\ call' = [call EXCEPT !.ops = SetStateOps(call.color),
                                    !.wrote = TRUE]
            /\ loop_pc' = "sls_hw"
  /\ UNCHANGED << last_req, stateVars, signalVars, hwVars, loop_sleep, elapsed, cont,
                  last_call, trans, disp, sdVars, mon_pc, fetched, envLeft >>

\* controller.py 139 / 57-67: the next LED write of set_state
SlsHw ==
  /\ loop_pc = "sls_hw"
  /\ call.ops # << >>
  /\ leds' = LedWrite(leds, Head(call.ops))
  /\ sink_color' = IF Len(call.ops) = 1 THEN call.color ELSE sink_color
  /\ call' = [call EXCEPT !.ops = Tail(call.ops)]
  /\ UNCHANGED << last_req, stateVars, signalVars, lock, loop_pc, loop_sleep, elapsed, cont,
                  last_call, trans, disp, sdVars, mon_pc, fetched, envLeft >>

\* a set_light_state without the except clause: the error of an LED write
\* leaves run(), whose thread ends
SlsFail_Raises ==
  /\ loop_pc = "sls_hw"
  /\ call.ops # << >>
  /\ envLeft > 0
  /\ envLeft' = envLeft - 1
  /\ call' = [call EXCEPT !.ops = << >>, !.ok = FALSE]
  /\ lock' = Unlocked
  /\ loop_pc' = "done"
  /\ UNCHANGED << last_req, stateVars, signalVars, hwVars, loop_sleep, elapsed, cont,
                  last_call, trans, disp, sdVars, mon_pc, fetched >>

\* controller.py 142-143: an LED write raises; the error is logged and
\* current_color is left as it was
SlsFail ==
  /\ loop_pc = "sls_hw"
  /\ call.ops # << >>
  /\ envLeft > 0
  /\ envLeft' = envLeft - 1
  /\ call' = [call EXCEPT !.ops = << >>, !.ok = FALSE]
  /\ lock' = Released
  /\ loop_pc' = "ret"
  /\ UNCHANGED << last_req, stateVars, signalVars, hwVars, loop_sleep, elapsed, cont,
                  last_call, trans, disp, sdVars, mon_pc, fetched >>

\* set_light_state recording the time of the colour change itself
SlsCommit_Stamping ==
  /\ loop_pc = "sls_hw"
  /\ call.ops = << >>
  /\ current_color' = call.color
  /\ last_state_change_time' = Stamped(last_state_change_time)
  /\ lock' = Released
  /\ loop_pc' = "ret"
  /\ UNCHANGED << last_req, target_mode, target_manual_color, current_mode, mode_state,
                  running, signalVars, hwVars, loop_sleep, elapsed, call, cont,
                  last_call, trans, disp, sdVars, mon_pc, fetched, envLeft >>

\* controller.py 140-141: set_state returned; record the colour
SlsCommit ==
  /\ loop_pc = "sls_hw"
  /\ call.ops = << >>
  /\ current_color' = call.color
  /\ lock' = Released
  /\ loop_pc' = "ret"
  /\ UNCHANGED << last_req, target_mode, target_manual_color, current_mode,
                  last_state_change_time, mode_state, running, signalVars, hwVars,
                  loop_sleep, elapsed, call, cont, last_call, trans, disp, sdVars, mon_pc, fetched,
                  envLeft >>

\* the caller's statements after the call: mode_state writes, the stamp of
\* last_state_change_time, the returned sleep (modes.py 14-20, 32, 52-55;
\* controller.py 204, 225-226, 247)
AfterCall ==
  /\ loop_pc = "ret"
  /\ mode_state' = cont.post
  /\ last_state_change_time' = IF cont.stamp THEN Stamped(last_state_change_time)
                               ELSE last_state_change_time
  /\ loop_sleep' = IF cont.sleep # NoSleep THEN cont.sleep ELSE loop_sleep
  /\ loop_pc' = cont.ret
  /\ last_call' = [color |-> call.color, wrote |-> call.wrote, ok |-> call.ok,
                   ret |-> cont.ret]
  /\ call' = NoCall
  /\ cont' = NoCont
  /\ UNCHANGED << last_req, target_mode, target_manual_color, current_mode, current_color,
                  running, signalVars, lock, hwVars, elapsed, trans, disp, sdVars,
                  mon_pc, fetched, envLeft >>


\* ----------------------------------------------------------- control loop
\* a run() that requests green without recording the time afterwards
RunStart_Unstamped ==
  /\ loop_pc = "start"
  /\ CanAcquire("loop")
  /\ lock' = Acquired("loop")
  /\ StartCall("green", last_state_change_time, mode_state, FALSE, NoSleep,
               "start_exit")
  /\ UNCHANGED << last_req, stateVars, signalVars, hwVars, loop_sleep, elapsed, last_call, trans,
                  disp, sdVars, mon_pc, fetched, envLeft >>

\* controller.py 202-204: run() takes the lock and requests green; the stamp
\* of line 204 follows the call
RunStart ==
  /\ loop_pc = "start"
  /\ CanAcquire("loop")
  /\ lock' = Acquired("loop")
  /\ StartCall("green", last_state_change_time, mode_state, TRUE, NoSleep,
               "start_exit")
  /\ UNCHANGED << last_req, stateVars, signalVars, hwVars, loop_sleep, elapsed, last_call, trans,
                  disp, sdVars, mon_pc, fetched, envLeft >>

\* controller.py 202-204: the end of the initial `with` block
RunStartExit ==
  /\ loop_pc = "start_exit"
  /\ lock' = Released
  /\ loop_pc' = "check"
  /\ UNCHANGED << last_req, stateVars, signalVars, hwVars, loop_sleep, elapsed, call, cont,
                  last_call, trans, disp, sdVars, mon_pc, fetched, envLeft >>

\* a loop condition that never reads running
LoopCheck_Forever ==
  /\ loop_pc = "check"
  /\ loop_sleep' = CONTROLLER_LOOP_SLEEP
  /\ loop_pc' = "acquire"
  /\ UNCHANGED << last_req, stateVars, signalVars, lock, hwVars, elapsed, call,
                  cont, last_call, trans, disp, sdVars, mon_pc, fetched, envLeft >>

\* controller.py 206-207: `while self.state.running`, read without the lock
LoopCheck ==
  /\ loop_pc = "check"
  /\ IF running
       THEN /\ loop_sleep' = CONTROLLER_LOOP_SLEEP
            /\ loop_pc' = "acquire"
       ELSE /\ loop_pc' = "done"
            /\ UNCHANGED loop_sleep
  /\ UNCHANGED << last_req, stateVars, signalVars, lock, hwVars, elapsed, call, cont,
                  last_call, trans, disp, sdVars, mon_pc, fetched, envLeft >>

\* an iteration that runs without taking the state lock
LoopAcquire_NoLock ==
  /\ loop_pc = "acquire"
  /\ loop_pc' = "transition"
  /\ UNCHANGED << last_req, stateVars, signalVars, lock, hwVars, loop_sleep,
                  elapsed, call, cont, last_call, trans, disp, sdVars, mon_pc, fetched,
                  envLeft >>

\* controller.py 209: `with self.state.lock`
LoopAcquire ==
  /\ loop_pc = "acquire"
  /\ CanAcquire("loop")
  /\ lock' = Acquired("loop")
  /\ loop_pc' = "transition"
  /\ UNCHANGED << last_req, stateVars, signalVars, hwVars, loop_sleep, elapsed, call, cont,
                  last_call, trans, disp, sdVars, mon_pc, fetched, envLeft >>

\* a transition that leaves last_state_change_time as the previous mode left it
LoopTransition_NoStamp ==
  /\ loop_pc = "transition"
  /\ IF current_mode # target_mode
       THEN LET d == EntryAction(target_mode, mode_state) IN
            /\ trans' = [done |-> TRUE, mode |-> current_mode,
                         color |-> current_color, ms |-> mode_state]
            /\ current_mode' = target_mode
            /\ mode_state' = d.pre
            /\ IF d.call
                 THEN StartCall(d.color, last_state_change_time, d.post,
                                d.stamp, d.sleep, "manual")
                 ELSE /\ loop_pc' = "manual"
                      /\ UNCHANGED << call, cont >>
       ELSE /\ loop_pc' = "manual"
            /\ UNCHANGED << current_mode, mode_state, call, cont, trans >>
  /\ UNCHANGED << last_req, target_mode, target_manual_color, current_color, running,
                  last_state_change_time, signalVars, lock, hwVars, loop_sleep,
                  elapsed, last_call, disp, sdVars, mon_pc, fetched, envLeft >>

\* controller.py 211-212 and 239-255: the pending-transition check and
\* _transition_to_mode up to its set_light_state call
LoopTransition ==
  /\ loop_pc = "transition"
  /\ IF current_mode # target_mode
       THEN LET d == EntryAction(target_mode, mode_state) IN
            /\ trans' = [done |-> TRUE, mode |-> current_mode,
                         color |-> current_color, ms |-> mode_state]
            /\ current_mode' = target_mode
            /\ last_state_change_time' = Stamped(last_state_change_time)
            /\ mode_state' = d.pre
            /\ IF d.call
                 THEN StartCall(d.color, Stamped(last_state_change_time), d.post,
                                d.stamp, d.sleep, "manual")
                 ELSE /\ loop_pc' = "manual"
                      /\ UNCHANGED << call, cont >>
       ELSE /\ loop_pc' = "manual"
            /\ UNCHANGED << current_mode, last_state_change_time, mode_state,
                            call, cont, trans >>
  /\ UNCHANGED << last_req, target_mode, target_manual_color, current_color, running,
                  signalVars, lock, hwVars, loop_sleep, elapsed, last_call,
                  disp, sdVars, mon_pc, fetched, envLeft >>

\* a manual override applied only in the iteration that enters manual
LoopManual_EntryOnly ==
  /\ loop_pc = "manual"
  /\ IF current_mode = "manual" /\ trans.done
       THEN StartCall(target_manual_color, last_state_change_time, mode_state,
                      FALSE, NoSleep, "elapsed")
       ELSE /\ loop_pc' = "elapsed"
            /\ UNCHANGED << call, cont >>
  /\ UNCHANGED << last_req, stateVars, signalVars, lock, hwVars, loop_sleep, elapsed,
                  last_call, trans, disp, sdVars, mon_pc, fetched, envLeft >>

\* controller.py 215-216: the manual override
LoopManual ==
  /\ loop_pc = "manual"
  /\ IF current_mode = "manual"
       THEN StartCall(target_manual_color, last_state_change_time, mode_state,
                      FALSE, NoSleep, "elapsed")
       ELSE /\ loop_pc' = "elapsed"
            /\ UNCHANGED << call, cont >>
  /\ UNCHANGED << last_req, stateVars, signalVars, lock, hwVars, loop_sleep, elapsed,
                  last_call, trans, disp, sdVars, mon_pc, fetched, envLeft >>

\* controller.py 219: elapsed = time() - last_state_change_time
LoopElapsed ==
  /\ loop_pc = "elapsed"
  /\ elapsed' = last_state_change_time.age
  /\ loop_pc' = "dispatch"
  /\ UNCHANGED << last_req, stateVars, signalVars, lock, hwVars, loop_sleep, call, cont,
                  last_call, trans, disp, sdVars, mon_pc, fetched, envLeft >>

\* controller.py 222-226: look the handler up and run it up to its
\* set_light_state call
LoopDispatch ==
  /\ loop_pc = "dispatch"
  /\ \E rnd \in PartyColors, hour \in Hours :
       LET d == Handler(current_mode, rnd, hour) IN
       /\ disp' = [done |-> TRUE, color |-> current_color, ms |-> mode_state]
       /\ mode_state' = d.pre
       /\ IF d.call
            THEN StartCall(d.color, last_state_change_time, d.post, d.stamp,
                           d.sleep, "release")
            ELSE /\ loop_pc' = "release"
                 /\ UNCHANGED << call, cont >>
  /\ UNCHANGED << last_req, target_mode, target_manual_color, current_mode, current_color,
                  last_state_change_time, running, signalVars, lock, hwVars,
                  loop_sleep, elapsed, last_call, trans, sdVars, mon_pc, fetched, envLeft >>

\* controller.py 209-226: the end of the iteration's `with` block; the local
\* `elapsed` is not read again before line 219 overwrites it
LoopRelease ==
  /\ loop_pc = "release"
  /\ lock' = Released
  /\ elapsed' = 0
  /\ trans' = NoTrans
  /\ disp' = NoDisp
  /\ loop_pc' = "sleep"
  /\ UNCHANGED << last_req, stateVars, signalVars, hwVars, loop_sleep, call, cont,
                  last_call, sdVars, mon_pc, fetched, envLeft >>

\* controller.py 228: sleep(loop_sleep); at least loop_sleep passes, and the loop
\* wakes at one of the instants WakeAges
LoopSleep(ages) ==
  /\ loop_pc = "sleep"
  /\ \E a \in ages :
       /\ a >= Min(last_state_change_time.age + loop_sleep, ElapsedCap)
       /\ last_state_change_time' = [last_state_change_time EXCEPT !.age = a]
  /\ loop_pc' = "check"
  /\ UNCHANGED << last_req, target_mode, target_manual_color, current_mode, current_color,
                  mode_state, running, signalVars, lock, hwVars, loop_sleep,
                  elapsed, call, cont, last_call, trans, disp, sdVars, mon_pc, fetched, envLeft >>

\* --------------------------------------------------- HTTP control surface
\* a set_mode that writes target_mode without taking the state lock
SetMode_NoLock(mode) ==
  /\ envLeft > 0
  /\ target_mode' = SetModeTarget(current_mode, mode)
  /\ last_req' = [op |-> "set_mode", arg |-> mode, mode |-> current_mode,
                  color |-> "", target |-> target_mode]
  /\ envLeft' = envLeft - 1
  /\ UNCHANGED << target_manual_color, current_mode, current_color,
                  last_state_change_time, mode_state, running, signalVars, lock,
                  hwVars, loopVars, sdVars, mon_pc, fetched >>

\* controller.py 145-159: set_mode(mode)
SetMode(mode) ==
  /\ envLeft > 0
  /\ CanAcquire("http")
  /\ target_mode' = SetModeTarget(current_mode, mode)
  /\ last_req' = [op |-> "set_mode", arg |-> mode, mode |-> current_mode,
                  color |-> "", target |-> target_mode]
  /\ envLeft' = envLeft - 1
  /\ UNCHANGED << target_manual_color, current_mode, current_color,
                  last_state_change_time, mode_state, running, signalVars, lock,
                  hwVars, loopVars, sdVars, mon_pc, fetched >>

\* a set_manual_color that leaves target_mode alone when it toggles off
SetManualColor_KeepsPending(color) ==
  /\ envLeft > 0
  /\ CanAcquire("http")
  /\ target_manual_color' = ManualTarget(current_mode, current_color, color)
  /\ target_mode' = IF current_mode = "manual" /\ current_color = color
                    THEN target_mode ELSE "manual"
  /\ last_req' = [op |-> "set_manual_color", arg |-> color,
                  mode |-> current_mode, color |-> current_color,
                  target |-> target_mode]
  /\ envLeft' = envLeft - 1
  /\ UNCHANGED << current_mode, current_color, last_state_change_time, mode_state,
                  running, signalVars, lock, hwVars, loopVars, sdVars, mon_pc, fetched >>

\* controller.py 161-176: set_manual_color(color)
SetManualColor(color) ==
  /\ envLeft > 0
  /\ CanAcquire("http")
  /\ target_manual_color' = ManualTarget(current_mode, current_color, color)
  /\ target_mode' = "manual"
  /\ last_req' = [op |-> "set_manual_color", arg |-> color,
                  mode |-> current_mode, color |-> current_color,
                  target |-> target_mode]
  /\ envLeft' = envLeft - 1
  /\ UNCHANGED << current_mode, current_color, last_state_change_time, mode_state,
                  running, signalVars, lock, hwVars, loopVars, sdVars, mon_pc, fetched >>

\* ---------------------------------------------------------------- shutdown
\* controller.py 261-265: running = False under the lock, then all_off begins
ShutdownCall ==
  /\ sd_pc = "idle"
  /\ envLeft > 0
  /\ envLeft' = envLeft - 1
  /\ CanAcquire("shutdown")
  /\ running' = FALSE
  /\ sd_pc' = "all_off"
  /\ sd_ops' = AllOffOps
  /\ UNCHANGED << last_req, target_mode, target_manual_color, current_mode, current_color,
                  last_state_change_time, mode_state, signalVars, lock, hwVars,
                  loopVars, mon_pc, fetched >>

\* controller.py 265 / 68-69 and 79: the next LED write of all_off
ShutdownHw ==
  /\ sd_pc \in {"all_off", "cleanup_off"}
  /\ sd_ops # << >>
  /\ leds' = LedWrite(leds, Head(sd_ops))
  /\ sink_color' = IF Len(sd_ops) = 1 THEN "off" ELSE sink_color
  /\ sd_ops' = Tail(sd_ops)
  /\ UNCHANGED << last_req, stateVars, signalVars, lock, loopVars, sd_pc, mon_pc, fetched,
                  envLeft >>

\* controller.py 268 / 76-79: cleanup() with RPi.GPIO importable: all_off again
ShutdownCleanup ==
  /\ sd_pc = "all_off"
  /\ sd_ops = << >>
  /\ sd_pc' = "cleanup_off"
  /\ sd_ops' = AllOffOps
  /\ UNCHANGED << last_req, stateVars, signalVars, lock, hwVars, loopVars, mon_pc, fetched,
                  envLeft >>

\* controller.py 268 / 76-81: cleanup() when the import raises: only a warning
ShutdownCleanupFailed ==
  /\ sd_pc = "all_off"
  /\ sd_ops = << >>
  /\ sd_pc' = "done"
  /\ UNCHANGED << last_req, stateVars, signalVars, lock, hwVars, loopVars, sd_ops, mon_pc, fetched,
                  envLeft >>

\* controller.py 79 and 270: GPIO.cleanup() and the end of shutdown()
ShutdownDone ==
  /\ sd_pc = "cleanup_off"
  /\ sd_ops = << >>
  /\ sd_pc' = "done"
  /\ UNCHANGED << last_req, stateVars, signalVars, lock, hwVars, loopVars, sd_ops, mon_pc, fetched,
                  envLeft >>

\* ---------------------------------------------------------------- monitors
\* the monitors that need credentials (config.py 110-120)
CredMonitors == {"s_bahn", "weather", "traffic"}

\* monitors.py 58-60, 84-86, 150-152: the thread starts, finds its credentials
\* absent, logs a warning and returns
MonitorDisabled(m) ==
  /\ mon_pc[m] = "top"
  /\ ~fetched[m].done
  /\ mon_pc' = [mon_pc EXCEPT ![m] = "disabled"]
  /\ UNCHANGED << fetched, last_req, stateVars, signalVars, lock, hwVars, loopVars,
                  sdVars, envLeft >>

\* a monitor that polls without credentials
MonitorPoll_Unchecked(m) ==
  /\ mon_pc[m] \in {"top", "disabled"}
  /\ running
  /\ envLeft > 0
  /\ envLeft' = envLeft - 1
  /\ mon_pc' = [mon_pc EXCEPT ![m] = "fetch"]
  /\ UNCHANGED << fetched, last_req, stateVars, signalVars, lock, hwVars, loopVars, sdVars >>

\* monitors.py 61, 87, 114, 153, 168: `while controller.state.running` read as
\* true; the monitor starts its fetch (the listener its recvfrom)
MonitorPoll(m) ==
  /\ mon_pc[m] = "top"
  /\ running
  /\ envLeft > 0
  /\ envLeft' = envLeft - 1
  /\ mon_pc' = [mon_pc EXCEPT ![m] = "fetch"]
  /\ UNCHANGED << fetched, last_req, stateVars, signalVars, lock, hwVars, loopVars, sdVars >>

\* monitors.py 61, 87, 114, 153, 168: `while controller.state.running` read as
\* false; the monitor returns
MonitorExit(m) ==
  /\ mon_pc[m] = "top"
  /\ ~running
  /\ mon_pc' = [mon_pc EXCEPT ![m] = "done"]
  /\ UNCHANGED << fetched, last_req, stateVars, signalVars, lock, hwVars, loopVars, sdVars, envLeft >>

\* monitors that all store into the field of the train poller as well
MonitorStore_SharedField(m) ==
  /\ mon_pc[m] = "fetch"
  /\ CanAcquire(m)
  /\ \E o \in OutcomesOf(m) : \E v \in Fetch(m, o) :
       /\ fetched' = Fetched(m, o)
       /\ s_bahn_minutes_away' = IF m = "s_bahn" THEN v ELSE NO_TRAIN
       /\ weather_status' = IF m = "weather" THEN v ELSE weather_status
       /\ space_weather_status' = IF m = "space" THEN v ELSE space_weather_status
       /\ traffic_status' = IF m = "traffic" THEN v ELSE traffic_status
       /\ iracing_light_status' =
            IF m = "iracing" /\ Color(v) \in ValidDatagrams THEN Color(v)
            ELSE iracing_light_status
  /\ mon_pc' = [mon_pc EXCEPT ![m] = "top"]
  /\ UNCHANGED << last_req, stateVars, lock, hwVars, loopVars, sdVars, envLeft >>

\* a monitor that stores its value without taking the state lock
MonitorStore_NoLock(m) ==
  /\ mon_pc[m] = "fetch"
  /\ \E o \in OutcomesOf(m) : \E v \in Fetch(m, o) :
       /\ fetched' = Fetched(m, o)
       /\ s_bahn_minutes_away' = IF m = "s_bahn" THEN v ELSE s_bahn_minutes_away
       /\ weather_status' = IF m = "weather" THEN v ELSE weather_status
       /\ space_weather_status' = IF m = "space" THEN v ELSE space_weather_status
       /\ traffic_status' = IF m = "traffic" THEN v ELSE traffic_status
       /\ iracing_light_status' =
            IF m = "iracing" /\ Color(v) \in ValidDatagrams THEN Color(v)
            ELSE iracing_light_status
  /\ mon_pc' = [mon_pc EXCEPT ![m] = "top"]
  /\ UNCHANGED << last_req, stateVars, lock, hwVars, loopVars, sdVars, envLeft >>

\* a listener that stores whatever text it received
Store_AnyText(m, o, v) ==
  /\ mon_pc[m] = "fetch"
  /\ CanAcquire(m)
  /\ fetched' = Fetched(m, o)
  /\ s_bahn_minutes_away' = IF m = "s_bahn" THEN v ELSE s_bahn_minutes_away
  /\ weather_status' = IF m = "weather" THEN v ELSE weather_status
  /\ space_weather_status' = IF m = "space" THEN v ELSE space_weather_status
  /\ traffic_status' = IF m = "traffic" THEN v ELSE traffic_status
  /\ iracing_light_status' = IF m = "iracing" THEN Color(v)
                             ELSE iracing_light_status
  /\ mon_pc' = [mon_pc EXCEPT ![m] = "top"]
  /\ UNCHANGED << last_req, stateVars, lock, hwVars, loopVars, sdVars, envLeft >>

\* monitors.py 63-65, 89-91, 116-118, 155-157, 171-174: monitor m, whose
\* fetch ended with outcome o and value v, stores v into its field under the
\* lock; the listener stores the text of a datagram only when it is a valid
\* colour
Store(m, o, v) ==
  /\ mon_pc[m] = "fetch"
  /\ CanAcquire(m)
  /\ fetched' = Fetched(m, o)
  /\ s_bahn_minutes_away' = IF m = "s_bahn" THEN v ELSE s_bahn_minutes_away
  /\ weather_status' = IF m = "weather" THEN v ELSE weather_status
  /\ space_weather_status' = IF m = "space" THEN v ELSE space_weather_status
  /\ traffic_status' = IF m = "traffic" THEN v ELSE traffic_status
  /\ iracing_light_status' =
       IF m = "iracing" /\ Color(v) \in ValidDatagrams THEN Color(v)
       ELSE iracing_light_status
  /\ mon_pc' = [mon_pc EXCEPT ![m] = "top"]
  /\ UNCHANGED << last_req, stateVars, lock, hwVars, loopVars, sdVars, envLeft >>

\* monitors.py 63-65, 89-91, 116-118, 155-157, 172-174: the fetched value is
\* stored under the lock, then the monitor sleeps and loops; the listener
\* stores a payload only when it is a valid one
MonitorStore(m) ==
  \E o \in OutcomesOf(m) : \E v \in Fetch(m, o) : Store(m, o, v)

\* monitors.py 175-176: recvfrom times out after a second; the listener loops
ListenerTimeout ==
  /\ mon_pc["iracing"] = "fetch"
  /\ mon_pc' = [mon_pc EXCEPT !["iracing"] = "top"]
  /\ UNCHANGED << fetched, last_req, stateVars, signalVars, lock, hwVars, loopVars, sdVars, envLeft >>

\* ------------------------------------- monitors of traffic_light_single.py
\* the monitors of the single-file variant that call their fetch function
\* inside `with controller.state.lock` (traffic_light_single.py 291-292,
\* 306-307, 330-331); its s_bahn monitor and listener are as in monitors.py
LockedFetchMonitors == {"weather", "space", "traffic"}

\* traffic_light_single.py 290-292, 305-307, 329-331: running read as true,
\* the lock taken, the fetch begun
SingleFetchBegin(m) ==
  /\ mon_pc[m] = "top"
  /\ running
  /\ envLeft > 0
  /\ envLeft' = envLeft - 1
  /\ CanAcquire(m)
  /\ lock' = Acquired(m)
  /\ mon_pc' = [mon_pc EXCEPT ![m] = "fetch"]
  /\ UNCHANGED << fetched, last_req, stateVars, signalVars, hwVars, loopVars, sdVars >>

\* traffic_light_single.py 292-293, 307-308, 331-332: the fetch returns, its
\* value is stored, the lock released; the monitor sleeps and loops
SingleFetchStore(m) ==
  /\ mon_pc[m] = "fetch"
  /\ lock.owner = m
  /\ \E o \in OutcomesOf(m) : \E v \in Fetch(m, o) :
       /\ fetched' = Fetched(m, o)
       /\ weather_status' = IF m = "weather" THEN v ELSE weather_status
       /\ space_weather_status' = IF m = "space" THEN v ELSE space_weather_status
       /\ traffic_status' = IF m = "traffic" THEN v ELSE traffic_status
  /\ lock' = Released
  /\ mon_pc' = [mon_pc EXCEPT ![m] = "top"]
  /\ UNCHANGED << last_req, stateVars, s_bahn_minutes_away, iracing_light_status,
                  hwVars, loopVars, sdVars, envLeft >>

\* ------------------------------------------------------------ specification
LoopStep ==
  \/ RunStart \/ RunStartExit \/ LoopCheck \/ LoopAcquire \/ LoopTransition
  \/ LoopManual \/ LoopElapsed \/ LoopDispatch \/ LoopRelease
  \/ SlsEnter \/ SlsHw \/ SlsFail \/ SlsCommit \/ AfterCall

ShutdownStep ==
  \/ ShutdownCall \/ ShutdownHw \/ ShutdownCleanup \/ ShutdownCleanupFailed
  \/ ShutdownDone

Next ==
  \/ LoopStep
  \/ LoopSleep(WakeAges)
  \/ ShutdownStep
  \/ \E mode \in ReqModes : SetMode(mode)
  \/ \E color \in ReqColors : SetManualColor(color)
  \/ \E m \in Monitors : MonitorPoll(m)
  \/ \E m \in Monitors : MonitorStore(m)
  \/ ListenerTimeout

Spec == Init /\ [][Next]_vars

\* the control loop under mode requests alone, with room for a mode to be
\* entered, left and entered again
InitModes == Constructed /\ envLeft = ModeEvents

NextModes ==
  \/ LoopStep
  \/ LoopSleep(WakeAges)
  \/ \E mode \in ReqModes : SetMode(mode)

SpecModes == InitModes /\ [][NextModes]_vars

\* the threads that poll running, around a shutdown: the control loop, the
\* monitors, and shutdown() up to `running = False` (what it does next writes
\* the LEDs only, which no loop condition reads).  The scheduler eventually
\* runs the control loop when it can step, and eventually runs some monitor
\* when one can step; a monitor waiting for the lock gets it once the loop has
\* exited.
MonitorStep(m) ==
  \/ MonitorExit(m)
  \/ MonitorStore(m)
  \/ m = "iracing" /\ ListenerTimeout

NextLive ==
  \/ LoopStep
  \/ LoopSleep(WakeAges)
  \/ ShutdownCall
  \/ \E m \in Monitors : MonitorPoll(m)
  \/ \E m \in Monitors : MonitorStep(m)

Fairness ==
  /\ WF_vars(LoopStep \/ LoopSleep(WakeAges))
  /\ WF_vars(\E m \in Monitors : MonitorStep(m))

SpecLive == Init /\ [][NextLive]_vars /\ Fairness

\* the control loop with the monitors of the single-file variant (its
\* controller, traffic_light_single.py 489-550, is the one of controller.py)
NextSingle ==
  \/ LoopStep
  \/ LoopSleep(WakeAges)
  \/ \E m \in LockedFetchMonitors : SingleFetchBegin(m)
  \/ \E m \in LockedFetchMonitors : SingleFetchStore(m)
  \/ \E m \in Monitors \ LockedFetchMonitors : MonitorPoll(m)
  \/ \E m \in Monitors \ LockedFetchMonitors : MonitorStore(m)
  \/ ListenerTimeout

SpecSingle == Init /\ [][NextSingle]_vars

\* the control loop with a lamp whose writes succeed, under mode requests: the
\* scheduler eventually runs the loop, and its sleep eventually ends
InitAuto == Constructed /\ envLeft = AutoEvents

LoopStepOk ==
  \/ RunStart \/ RunStartExit \/ LoopCheck \/ LoopAcquire \/ LoopTransition
  \/ LoopManual \/ LoopElapsed \/ LoopDispatch \/ LoopRelease
  \/ SlsEnter \/ SlsHw \/ SlsCommit \/ AfterCall

NextAuto ==
  \/ LoopStepOk
  \/ LoopSleep(WakeAges)
  \/ \E mode \in ReqModes : SetMode(mode)

SpecAuto ==
  InitAuto /\ [][NextAuto]_vars /\ WF_vars(LoopStepOk \/ LoopSleep(WakeAges))

\* the control loop under the requests of the control surface, with room for
\* manual to be entered, another mode to be asked for and a colour to be
\* asked for again
InitManual == Constructed /\ envLeft = ManualEvents

ManualRivals == {"party", "manual"}

NextManual ==
  \/ LoopStep
  \/ LoopSleep(WakeAges)
  \/ \E mode \in ManualRivals : SetMode(mode)
  \/ \E color \in ReqColors : SetManualColor(color)

SpecManual == InitManual /\ [][NextManual]_vars

\* ------------------------------------------------ the handlers on their inputs
\* elapsed times at, just above and around the thresholds the handlers compare
\* with (centiseconds)
HandlerAges == {0, 20, 21, 40, 41, 60, 61, 100, 101, 150, 151, 200, 201, 300,
                301, 400, 2000, ElapsedCap}

\* the inputs, per mode, that its handler reads
AutoNext == {"green", "red", "red_and_yellow"}
SBahnInputs == {NO_TRAIN, -2, 0, 8, 9, 10, 12, 13}
SpaceInputs == {NoSpace} \cup {Space(kp) : kp \in {-1, 0, 3, 4, 5, 6}}
WeatherInputs == {NoWeather, Weather(18, "Clear"), Weather(17, "Clear"),
                  Weather(20, "Light Rain")}
LiveInputs == {"black", "red", "green-yellow"}
TrafficInputs == {NoTraffic} \cup {Traffic(d) : d \in {-3, 0, 20, 21, 45, 46}}

\* the control loop at the top of an iteration in `mode`, no transition pending
LoopAt(mode, color, age, ms) ==
  /\ target_mode = mode
  /\ target_manual_color = "off"
  /\ current_mode = mode
  /\ current_color = color
  /\ last_state_change_time = [age |-> age, stamp |-> 0]
  /\ mode_state = ms
  /\ lock = Unlocked
  /\ running = TRUE
  /\ leds = [l \in Leds |-> \E i \in 1..Len(OnOps(color)) : OnOps(color)[i][1] = l]
  /\ sink_color = color
  /\ loop_pc = "check"
  /\ loop_sleep = CONTROLLER_LOOP_SLEEP
  /\ elapsed = 0
  /\ call = NoCall
  /\ cont = NoCont
  /\ last_call = NoLastCall
  /\ trans = NoTrans
  /\ disp = NoDisp
  /\ sd_pc = "idle"
  /\ sd_ops = << >>
  /\ mon_pc = [m \in Monitors |-> "top"]
  /\ fetched = [m \in Monitors |-> NoFetch]
  /\ last_req = NoReq

\* the signals as constructed (state.py 25-29)
NoSignals ==
  /\ s_bahn_minutes_away = NO_TRAIN
  /\ weather_status = NoWeather
  /\ iracing_light_status = "black"
  /\ space_weather_status = NoSpace
  /\ traffic_status = NoTraffic

DefaultModeState == [next_auto_state |-> "green", sos_index |-> 0, race_step |-> 0]

HandlerInputs ==
  \/ \E c \in Colors, age \in HandlerAges, n \in AutoNext :
       /\ LoopAt("auto", c, age, [DefaultModeState EXCEPT !.next_auto_state = n])
       /\ NoSignals
  \/ \E c \in {"off", "all_on"}, age \in HandlerAges :
       /\ LoopAt("sos", c, age, DefaultModeState)
       /\ NoSignals
  \/ \E c \in {"red", "yellow", "green", "off"}, v \in SBahnInputs :
       /\ LoopAt("s_bahn", c, 0, DefaultModeState)
       /\ s_bahn_minutes_away = v
       /\ weather_status = NoWeather
       /\ iracing_light_status = "black"
       /\ space_weather_status = NoSpace
       /\ traffic_status = NoTraffic
  \/ \E c \in {"red", "yellow", "green", "off"}, v \in SpaceInputs :
       /\ LoopAt("space", c, 0, DefaultModeState)
       /\ s_bahn_minutes_away = NO_TRAIN
       /\ weather_status = NoWeather
       /\ iracing_light_status = "black"
       /\ space_weather_status = v
       /\ traffic_status = NoTraffic
  \/ \E c \in {"red", "yellow", "green", "off"}, v \in TrafficInputs :
       /\ LoopAt("stau", c, 0, DefaultModeState)
       /\ s_bahn_minutes_away = NO_TRAIN
       /\ weather_status = NoWeather
       /\ iracing_light_status = "black"
       /\ space_weather_status = NoSpace
       /\ traffic_status = v
  \/ \E c \in {"red", "yellow", "green"}, v \in WeatherInputs :
       /\ LoopAt("biergarten", c, 0, DefaultModeState)
       /\ s_bahn_minutes_away = NO_TRAIN
       /\ weather_status = v
       /\ iracing_light_status = "black"
       /\ space_weather_status = NoSpace
       /\ traffic_status = NoTraffic
  \/ \E c \in {"off", "green"}, age \in HandlerAges, v \in LiveInputs :
       /\ LoopAt("racing", c, age, DefaultModeState)
       /\ s_bahn_minutes_away = NO_TRAIN
       /\ weather_status = NoWeather
       /\ iracing_light_status = v
       /\ space_weather_status = NoSpace
       /\ traffic_status = NoTraffic

InitHandlers == HandlerInputs /\ envLeft = HandlerEvents

NextHandlers ==
  \/ LoopCheck \/ LoopAcquire \/ LoopTransition \/ LoopManual \/ LoopElapsed
  \/ LoopDispatch \/ LoopRelease
  \/ SlsEnter \/ SlsHw \/ SlsFail \/ SlsCommit \/ AfterCall
  \/ LoopSleep(HandlerAges)

SpecHandlers == InitHandlers /\ [][NextHandlers]_vars


\* ------------------------------------------------------------------ claims
\* the control loop is inside an iteration, past its transition step
InIteration ==
  \/ loop_pc \in {"manual", "elapsed", "dispatch", "release"}
  \/ loop_pc \in {"sls", "sls_hw", "ret"} /\ cont.ret # "start_exit"

\* run() has requested green and stamped the time: the loop proper has started
LoopStarted ==
  /\ loop_pc \notin {"start", "start_exit"}
  /\ ~(loop_pc \in {"sls", "sls_hw", "ret"} /\ cont.ret = "start_exit")

\* C1: set_light_state is idempotent.  When a set_light_state(c) call has
\* returned: it invoked hardware.set_state exactly when current_color differed
\* from c, and it left last_state_change_time as it was; and when the previous
\* call was for the same colour c and its sink write did not fail, this second
\* call wrote nothing to the sink and left current_color (= c) unchanged, so the
\* two calls together wrote the sink once if the colour differed before the
\* first call and not at all otherwise.
C1_SetColorIdempotent ==
  loop_pc = "ret" =>
    /\ call.wrote <=> (call.before # call.color)
    /\ last_state_change_time = call.lsct
    /\ (last_call.color = call.color /\ last_call.ok) =>
         /\ ~call.wrote
         /\ call.ok
         /\ current_color = call.before
         /\ current_color = call.color

\* C1 witness: a second set_light_state(c) has returned after a first one that
\* wrote c to the sink
C1_Witness ==
  /\ loop_pc = "ret"
  /\ last_call.color = call.color
  /\ last_call.ok /\ last_call.wrote
  /\ ~call.wrote

\* C2: from the start of the control loop onward, and outside a sink write in
\* progress, current_color is the colour the sink last committed, shutdown's
\* all-off included.
C2_ColorIsSinkColor ==
  (LoopStarted /\ loop_pc # "sls_hw") => current_color = sink_color

\* last_state_change_time is assigned in this step
Stamps == last_state_change_time'.stamp # last_state_change_time.stamp

\* the control loop performs a pending mode transition in this step
TransitionFires ==
  loop_pc = "transition" /\ loop_pc' # "transition" /\ current_mode # target_mode

\* a set_light_state call returns to its caller in this step
CallReturns == loop_pc = "ret" /\ loop_pc' # "ret"

\* the callers that assign last_state_change_time after set_light_state:
\* run() at start-up, and the auto, sos and racing-countdown handlers
StampingCaller ==
  \/ cont.ret = "start_exit"
  \/ /\ cont.ret = "release"
     /\ \/ current_mode \in {"auto", "sos"}
        \/ current_mode = "racing" /\ mode_state.race_step < 4

\* C3 as stated: last_state_change_time is modified only in a step in which
\* current_color changes; a transition whose entry action leaves the colour as
\* it was, and a call that re-requests the current colour, do not modify it.
C3_StampOnlyOnColorChange ==
  [][Stamps =>
       \/ /\ TransitionFires
          /\ EntryAction(target_mode, mode_state).call
          /\ EntryAction(target_mode, mode_state).color # current_color
       \/ CallReturns /\ call.wrote /\ call.ok]_vars

\* C3 amended: last_state_change_time is assigned by exactly these steps: every
\* mode transition, whether or not its entry action changes the colour, and the
\* return of a set_light_state call made by run() at start-up or by the auto,
\* sos or racing-countdown handler, whether or not that call changed the
\* colour.  No other step assigns it.
C3_StampSites ==
  [][/\ Stamps <=> (TransitionFires \/ (CallReturns /\ cont.stamp))
     /\ (CallReturns /\ cont.stamp) => StampingCaller]_vars

\* C3 witness: a transition into party has just happened, the colour is what it
\* was before the transition, and last_state_change_time is the present time
C3_Witness ==
  /\ loop_pc = "manual"
  /\ trans.done /\ trans.mode # "party"
  /\ current_mode = "party"
  /\ current_color = trans.color
  /\ last_state_change_time.age = 0

C5_SetModeToggle ==
  [][\A m \in ReqModes :
       SetMode(m) =>
         /\ target_mode' = (IF current_mode = m THEN "idle" ELSE m)
         /\ UNCHANGED << target_manual_color, current_mode, current_color,
                         last_state_change_time, mode_state, running,
                         signalVars, hwVars >>]_vars

\* C5 witness: set_mode(party) was served while party was the active mode, and
\* the target is idle
C5_Witness ==
  /\ last_req.op = "set_mode"
  /\ last_req.arg = "party" /\ last_req.mode = "party"
  /\ target_mode = "idle"

\* C6: set_manual_color(c) sets target_manual_color to off exactly when
\* current_mode is manual and current_color is c, and to c otherwise (and
\* always targets manual mode); so a second set_manual_color(c), served while
\* manual mode shows c, ends with target_manual_color = off.
C6_ManualToggle ==
  [][\A c \in ReqColors :
       SetManualColor(c) =>
         /\ target_manual_color'
              = (IF current_mode = "manual" /\ current_color = c
                   THEN "off" ELSE c)
         /\ (target_manual_color' = "off") <=>
              (c = "off" \/ (current_mode = "manual" /\ current_color = c))
         /\ target_mode' = "manual"]_vars

\* C6 witness: two requests were served, the second a set_manual_color(red)
\* that found manual mode showing red, and target_manual_color is off
C6_Witness ==
  /\ envLeft = 0
  /\ last_req.op = "set_manual_color"
  /\ last_req.arg = "red"
  /\ last_req.mode = "manual" /\ last_req.color = "red"
  /\ target_manual_color = "off"

\* the colour the lamp shows after a mode-entry request for colour c: c, or
\* the colour from before the transition when the LED write raised
EntryColor(c) ==
  /\ last_call.color = c
  /\ current_color = (IF last_call.ok THEN c ELSE trans.color)

\* C7: when the transition step of an iteration has performed a transition,
\* current_mode is the requested mode (and differs from the mode before), and
\* exactly the new mode's entry action has run on the colour and mode_state
\* found: auto requests red and sets next_auto_state to red_and_yellow; sos
\* sets sos_index to 0 and requests off; racing sets race_step to 0 and
\* requests off; idle requests off; every other mode leaves the colour and
\* mode_state as they were.  This holds whatever sos_index and race_step an
\* earlier visit has left.
C7_EntryActions ==
  (loop_pc = "manual" /\ trans.done) =>
    /\ current_mode = target_mode
    /\ current_mode # trans.mode
    /\ CASE current_mode = "auto" ->
              /\ EntryColor("red")
              /\ mode_state
                   = [trans.ms EXCEPT !.next_auto_state = "red_and_yellow"]
         [] current_mode = "sos" ->
              /\ EntryColor("off")
              /\ mode_state = [trans.ms EXCEPT !.sos_index = 0]
         [] current_mode = "racing" ->
              /\ EntryColor("off")
              /\ mode_state = [trans.ms EXCEPT !.race_step = 0]
         [] current_mode = "idle" ->
              /\ EntryColor("off")
              /\ mode_state = trans.ms
         [] OTHER ->
              /\ current_color = trans.color
              /\ mode_state = trans.ms

\* C7 witness: sos has been entered again with the sos_index an earlier visit
\* left behind, and the entry has reset it
C7_Witness ==
  /\ loop_pc = "manual" /\ trans.done
  /\ current_mode = "sos"
  /\ trans.ms.sos_index > 0
  /\ mode_state.sos_index = 0

\* the caller a set_light_state call in progress returns to
Caller == IF loop_pc \in {"sls", "sls_hw", "ret"} THEN cont.ret ELSE loop_pc

\* the control loop is inside the `with` block of an iteration
InCritical == Caller \in {"transition", "manual", "elapsed", "dispatch", "release"}

\* the position that follows pc within run(); a step that calls
\* set_light_state moves to "sls" and returns to that position
StepOrder ==
  /\ loop_pc = "acquire" => loop_pc' = "transition"
  /\ loop_pc = "transition" => Caller' = "manual"
  /\ loop_pc = "manual" => Caller' = "elapsed"
  /\ loop_pc = "elapsed" => loop_pc' = "dispatch"
  /\ loop_pc = "dispatch" => Caller' = "release"
  /\ loop_pc = "release" => loop_pc' = "sleep"
  /\ loop_pc = "sleep" => loop_pc' = "check"
  /\ loop_pc \in {"sls", "sls_hw"} => loop_pc' \in {"sls_hw", "ret"} /\ cont' = cont
  /\ loop_pc = "ret" => loop_pc' = cont.ret

\* C8: within an iteration the steps run in the order transition, manual
\* override, elapsed computation, handler dispatch, each once, and the loop
\* holds the state lock from before the transition step until after the
\* handler: no request changes target_mode in between and current_mode changes
\* only in the transition step, so from the manual-override step on
\* current_mode is the target the transition step found, and it is the mode
\* whose handler is dispatched.
C8_IterationOrder ==
  /\ [](InCritical => lock.owner = "loop")
  /\ [](InIteration => current_mode = target_mode)
  /\ [][/\ loop_pc' # loop_pc => StepOrder
        /\ (InCritical /\ InCritical') => target_mode' = target_mode
        /\ (InIteration /\ InCritical') => current_mode' = current_mode]_vars

\* C8 witness: the handler is about to be dispatched in an iteration whose
\* transition step changed the mode to party
C8_Witness ==
  /\ loop_pc = "dispatch"
  /\ trans.done /\ trans.mode # "party"
  /\ current_mode = "party" /\ target_mode = "party"
  /\ lock.owner = "loop"

\* every thread that polls running has returned
AllExited == loop_pc = "done" /\ \A m \in Monitors : mon_pc[m] = "done"

\* C9: once shutdown() has set running to false, the control loop and every
\* monitor eventually return: the loop at its next evaluation of the loop
\* condition, each monitor at its next one; a thread that has read running as
\* false does not start another iteration, and one that has returned stays so.
C9_ExitAfterShutdown ==
  /\ ~running ~> AllExited
  /\ [][/\ (loop_pc = "check" /\ ~running /\ loop_pc' # "check")
             => loop_pc' = "done"
        /\ loop_pc = "done" => loop_pc' = "done"
        /\ \A m \in Monitors :
             /\ (mon_pc[m] = "top" /\ ~running /\ mon_pc'[m] # "top")
                  => mon_pc'[m] = "done"
             /\ mon_pc[m] = "done" => mon_pc'[m] = "done"]_vars

\* C9 witness: shutdown() was called while the iRacing listener was waiting
\* in recvfrom and the loop was in its start-up or an iteration; afterwards
\* all of them have returned
C9_Witness ==
  /\ ~running
  /\ AllExited
  /\ envLeft = 0
  /\ current_color # "unknown"

\* C10: once shutdown() has completed and the control loop, which had
\* entered its loop before the shutdown, has exited, all three lamps are off.
C10_LampsOffAfterShutdown ==
  (sd_pc = "done" /\ loop_pc = "done" /\ loop_sleep # NoSleep) => AllLedsOff

\* the control loop is inside hardware.set_state (called by set_light_state)
LoopInSinkWrite == loop_pc = "sls_hw" /\ call.ops # << >>

\* shutdown() is inside hardware.all_off (its own call or cleanup's)
ShutdownInSinkWrite == sd_pc \in {"all_off", "cleanup_off"} /\ sd_ops # << >>

\* C11: sink writes are serialized by the state lock: the control loop and
\* shutdown() are never inside a sink write at the same time, and a task that
\* is inside a sink write holds the state lock.
C11_SinkWritesSerialized ==
  /\ ~(LoopInSinkWrite /\ ShutdownInSinkWrite)
  /\ LoopInSinkWrite => lock.owner = "loop"
  /\ ShutdownInSinkWrite => lock.owner = "shutdown"

\* C12: the control loop holds the state lock once throughout its iteration
\* and takes it a second time inside set_light_state without blocking (the
\* call is always able to proceed, and holds it twice during the sink write);
\* after the iteration's block the lock is free with hold count zero; and
\* while running is true the control loop can always take a step.
C12_ReentrantLock ==
  /\ InCritical =>
       /\ lock.owner = "loop"
       /\ lock.count = (IF loop_pc = "sls_hw" THEN 2 ELSE 1)
  /\ loop_pc = "sls" => ENABLED SlsEnter
  /\ loop_pc \in {"sleep", "check", "acquire", "done"} => lock = Unlocked
  /\ running => ENABLED (LoopStep \/ LoopSleep(WakeAges))

\* C12 witness: a handler's set_light_state call is inside its sink write,
\* holding the lock for the second time
C12_Witness ==
  /\ loop_pc = "sls_hw"
  /\ cont.ret = "release"
  /\ lock = [owner |-> "loop", count |-> 2]
  /\ running

\* a field the control loop writes is assigned in this step
LoopFieldWritten ==
  \/ current_mode' # current_mode
  \/ current_color' # current_color
  \/ mode_state' # mode_state
  \/ Stamps

\* a field another task writes (a request, a monitor, shutdown) is assigned
OtherFieldWritten ==
  \/ target_mode' # target_mode
  \/ target_manual_color' # target_manual_color
  \/ running' # running
  \/ signalVars' # signalVars

\* the control loop holds the lock in its start-up block or in an iteration
LoopHoldsLock ==
  InCritical \/ loop_pc = "start_exit" \/ Caller = "start_exit"

\* C13: every assignment to a SharedState field is made by a task holding the
\* state lock: the loop's fields change only while the loop owns it, the
\* fields of requests, monitors and shutdown change only in a step that finds
\* the lock free and takes it for the write; the lock has one owner at a
\* time; so during a control-loop iteration no field written by a monitor, a
\* request or shutdown changes.
C13_WritesUnderLock ==
  /\ [](/\ lock.owner \in {"none", "loop"}
        /\ (lock.owner = "none") <=> (lock.count = 0)
        /\ LoopHoldsLock <=> (lock.owner = "loop"))
  /\ [][/\ LoopFieldWritten => lock.owner = "loop"
        /\ OtherFieldWritten => lock = Unlocked
        /\ (InCritical /\ InCritical') => ~OtherFieldWritten]_vars

\* C13 witness: the s_bahn handler is about to run while the s_bahn monitor
\* has a fetched value to store and must wait for the lock
C13_Witness ==
  /\ loop_pc = "dispatch"
  /\ current_mode = "s_bahn"
  /\ mon_pc["s_bahn"] = "fetch"
  /\ lock.owner = "loop"

\* C14: no monitor is in its network fetch while it holds the state lock,
\* the control loop does not sleep holding it, and the control loop waiting
\* for the lock is never kept waiting by a monitor that is fetching.
C14_NoFetchUnderLock ==
  /\ \A m \in Monitors : mon_pc[m] = "fetch" => lock.owner # m
  /\ loop_pc = "sleep" => lock.owner # "loop"
  /\ (loop_pc = "acquire" /\ \E m \in Monitors : mon_pc[m] = "fetch")
       => ENABLED LoopAcquire

\* the control loop in a mode that shows a poller's data, with the monitors:
\* room for a poller to store data and then to fail
DataModes == {"s_bahn", "biergarten", "space", "stau"}

InitProducers ==
  /\ \E mode \in DataModes : LoopAt(mode, "green", 0, DefaultModeState)
  /\ NoSignals
  /\ envLeft = ProducerEvents

NextProducers ==
  \/ LoopCheck \/ LoopAcquire \/ LoopTransition \/ LoopManual \/ LoopElapsed
  \/ LoopDispatch \/ LoopRelease
  \/ SlsEnter \/ SlsHw \/ SlsCommit \/ AfterCall
  \/ LoopSleep(WakeAges)
  \/ \E m \in Monitors : MonitorPoll(m)
  \/ \E m \in Monitors : MonitorStore(m)
  \/ ListenerTimeout

SpecProducers == InitProducers /\ [][NextProducers]_vars

\* the same, with monitors whose credentials may be absent
NextDisabled ==
  \/ NextProducers
  \/ \E m \in CredMonitors : MonitorDisabled(m)

SpecDisabled == InitProducers /\ [][NextDisabled]_vars

\* ------------------------------------------------------- the handlers' tables
\* the handler of the iteration has returned: disp holds the colour and
\* mode_state it found, elapsed the elapsed time it was given
HandlerDone(mode) == loop_pc = "release" /\ disp.done /\ current_mode = mode

\* the handler asked the sink for colour c: c is shown, or, when the LED write
\* raised, the colour found is still shown
Shows(c) ==
  /\ last_call.color = c
  /\ current_color = (IF last_call.ok THEN c ELSE disp.color)

\* the handler left the colour and mode_state as it found them
Untouched == current_color = disp.color /\ mode_state = disp.ms

\* C15: one step of the auto handler, by the colour found and the elapsed time
\* (centiseconds): green after more than 20 s becomes yellow and
\* next_auto_state red; yellow after more than 3 s becomes next_auto_state;
\* red after more than 20 s becomes red_and_yellow and next_auto_state green;
\* red_and_yellow after more than 2 s becomes next_auto_state; at or below
\* the threshold, and for every other colour, colour and mode_state stay.
C15_AutoStep ==
  HandlerDone("auto") =>
    CASE disp.color = "green" /\ elapsed > 2000 ->
           /\ Shows("yellow")
           /\ mode_state = [disp.ms EXCEPT !.next_auto_state = "red"]
      [] disp.color = "yellow" /\ elapsed > 300 ->
           /\ Shows(disp.ms.next_auto_state)
           /\ mode_state = disp.ms
      [] disp.color = "red" /\ elapsed > 2000 ->
           /\ Shows("red_and_yellow")
           /\ mode_state = [disp.ms EXCEPT !.next_auto_state = "green"]
      [] disp.color = "red_and_yellow" /\ elapsed > 200 ->
           /\ Shows(disp.ms.next_auto_state)
           /\ mode_state = disp.ms
      [] OTHER -> Untouched

\* C15 witness: yellow, reached from green with next_auto_state red, has
\* become red after 4 s (no LED write has raised, and the stamp of this step
\* is the second of the run)
C15_Witness ==
  /\ HandlerDone("auto")
  /\ envLeft = HandlerEvents
  /\ disp.color = "yellow" /\ disp.ms.next_auto_state = "red"
  /\ elapsed = 400
  /\ current_color = "red"
  /\ last_state_change_time = [age |-> 0, stamp |-> 0]
\* the auto cycle (modes.py 10-20)
AutoCycle == << "green", "yellow", "red", "red_and_yellow" >>
\* auto is the mode and the mode asked for, past its entry, showing c
AutoPhase(c) ==
  /\ current_mode = "auto" /\ target_mode = "auto"
  /\ loop_pc \notin {"start", "start_exit"} /\ ~trans.done
  /\ current_color = c
StaysAuto == current_mode = "auto" /\ target_mode = "auto"

\* C16: with the loop running and every LED write succeeding, auto starts at
\* green when it is the start-up mode and at red when it is entered by a
\* transition; every colour change its handler makes goes to the next phase
\* of green, yellow, red, red_and_yellow, green; and every phase is
\* eventually left for the next one unless auto is left.
C16_AutoCycle ==
  /\ [](loop_pc = "start_exit" => current_color = "green")
  /\ []((loop_pc = "manual" /\ trans.done /\ current_mode = "auto")
          => current_color = "red")
  /\ [][(current_mode = "auto" /\ Caller = "release"
          /\ current_color' # current_color)
         => \E i \in 1..4 : /\ current_color = AutoCycle[i]
                             /\ current_color' = AutoCycle[(i % 4) + 1]]_vars
  /\ \A i \in 1..4 :
       AutoPhase(AutoCycle[i])
         ~> (~StaysAuto \/ AutoPhase(AutoCycle[(i % 4) + 1]))

\* C16 witness: auto was entered by a transition (a request made while another
\* mode was active) and its handler has gone from red_and_yellow on to green
C16_Witness ==
  /\ HandlerDone("auto")
  /\ last_req.op = "set_mode" /\ last_req.arg = "auto" /\ last_req.mode # "auto"
  /\ disp.color = "red_and_yellow"
  /\ current_color = "green"
\* a blink step between c and off: c unless c was found, then off; the loop
\* sleeps 0.5 s
Blinks(c) ==
  /\ Shows(IF disp.color # c THEN c ELSE "off")
  /\ loop_sleep = 50
  /\ mode_state = disp.ms

\* a solid colour: c is requested, the loop sleeps its default 0.2 s
Solid(c) ==
  /\ Shows(c)
  /\ loop_sleep = 20
  /\ mode_state = disp.ms

\* C17: the S-Bahn handler, by s_bahn_minutes_away: -1 blinks red/off with a
\* 0.5 s override; any other value below 9 gives solid red; 9 blinks
\* yellow/off with a 0.5 s override; 10 to 12 gives solid yellow; above 12
\* gives solid green; the solid branches return no override.
C17_SBahnTable ==
  HandlerDone("s_bahn") =>
    LET minutes == s_bahn_minutes_away IN
    CASE minutes = -1 -> Blinks("red")
      [] minutes # -1 /\ minutes < 9 -> Solid("red")
      [] minutes = 9 -> Blinks("yellow")
      [] minutes >= 10 /\ minutes <= 12 -> Solid("yellow")
      [] minutes > 12 -> Solid("green")

\* C17 witness: at 9 minutes a tick that found yellow has switched the lamp
\* off, with the 0.5 s override
C17_Witness ==
  /\ HandlerDone("s_bahn")
  /\ s_bahn_minutes_away = 9
  /\ disp.color = "yellow"
  /\ current_color = "off"
  /\ loop_sleep = 50

\* C18: the space handler, by Kp: no Kp or Kp >= 5 blinks red/off with a
\* 0.5 s override, so a tick that found red does not show red again (its LED
\* write succeeding); Kp = 4 gives solid yellow; Kp <= 3 gives solid green.
C18_SpaceTable ==
  HandlerDone("space") =>
    LET sw == space_weather_status IN
    IF ~sw.has \/ sw.kp_index >= 5
      THEN /\ Blinks("red")
           /\ (disp.color = "red" /\ last_call.ok) => current_color = "off"
    ELSE IF sw.kp_index = 4 THEN Solid("yellow")
    ELSE sw.kp_index <= 3 /\ Solid("green")

\* C18 witness: at Kp 5 a tick that found red has switched the lamp off
C18_Witness ==
  /\ HandlerDone("space")
  /\ space_weather_status.has /\ space_weather_status.kp_index = 5
  /\ disp.color = "red"
  /\ current_color = "off"
  /\ loop_sleep = 50

\* C19: the stau handler, by avg_delay: no delay data blinks red/off with a
\* 0.5 s override; above 45 gives solid red; above 20 up to and including 45
\* gives solid yellow; 20 and below, negative delays included, gives solid
\* green.
C19_StauTable ==
  HandlerDone("stau") =>
    LET tr == traffic_status IN
    IF ~tr.has THEN Blinks("red")
    ELSE CASE tr.avg_delay > 45 -> Solid("red")
           [] tr.avg_delay > 20 /\ tr.avg_delay <= 45 -> Solid("yellow")
           [] tr.avg_delay <= 20 -> Solid("green")

\* C19 witness: a delay of exactly 45 has turned a red lamp yellow
C19_Witness ==
  /\ HandlerDone("stau")
  /\ traffic_status.has /\ traffic_status.avg_delay = 45
  /\ disp.color = "red"
  /\ current_color = "yellow"
\* C20: sos_index is always one of 0..17; an sos handler invocation whose
\* elapsed time exceeds the duration of the step at sos_index advances
\* sos_index by exactly one, from 17 back to 0, and requests that step's
\* state; an invocation whose elapsed time does not exceed it leaves
\* sos_index and the colour as they were.
C20_SosWalk ==
  /\ mode_state.sos_index \in 0..17
  /\ HandlerDone("sos") =>
       LET idx == disp.ms.sos_index
           nxt == IF idx = 17 THEN 0 ELSE idx + 1
       IN  IF elapsed > sos_pattern[idx + 1].duration
             THEN /\ mode_state = [disp.ms EXCEPT !.sos_index = nxt]
                  /\ Shows(sos_pattern[nxt + 1].state)
             ELSE Untouched

\* C20 witness: the walk, which begins at step 0, has gone through step 17
\* and is back at step 0, whose state all_on is shown
C20_Witness ==
  /\ HandlerDone("sos")
  /\ disp.ms.sos_index = 17
  /\ mode_state.sos_index = 0
  /\ disp.color = "off"
  /\ current_color = "all_on"
\* the colour of the countdown step taken at race_step (modes.py 52-55)
CountdownColor(step) ==
  CASE step = 0 -> "red"
    [] step = 1 -> "red_and_yellow"
    [] step = 2 -> "all_on"
    [] step = 3 -> "off"

\* C21: the racing handler, from race_step 0 on: below step 4 an invocation
\* with more than 1 s elapsed requests red, red_and_yellow, all_on, off (at
\* steps 0, 1, 2, 3) and advances race_step by one, and an invocation with
\* 1 s or less changes nothing; from step 4 on every invocation requests
\* iracing_light_status, off for black, makes the loop sleep 0.05 s and
\* leaves race_step as it is.
C21_RacingCountdown ==
  /\ mode_state.race_step \in 0..4
  /\ HandlerDone("racing") =>
       LET step == disp.ms.race_step IN
       IF step < 4
         THEN IF elapsed > 100
                THEN /\ Shows(CountdownColor(step))
                     /\ mode_state = [disp.ms EXCEPT !.race_step = step + 1]
                     /\ loop_sleep = 20
                ELSE Untouched /\ loop_sleep = 20
         ELSE /\ Shows(IF iracing_light_status = "black" THEN "off"
                       ELSE iracing_light_status)
              /\ mode_state = disp.ms
              /\ loop_sleep = 5

\* C21 witness: the countdown, begun at step 0, is over and the lamp, off
\* after the last step, follows the status red with the 0.05 s override
C21_Witness ==
  /\ HandlerDone("racing")
  /\ disp.ms.race_step = 4 /\ mode_state.race_step = 4
  /\ iracing_light_status = "red"
  /\ disp.color = "off"
  /\ current_color = "red"
  /\ loop_sleep = 5
\* the current mode's handler is in its degraded branch (modes.py 36, 44, 61,
\* 67): no train, no weather, no Kp or a storm, no delay data
DegradedBranch ==
  \/ current_mode = "s_bahn" /\ s_bahn_minutes_away = NO_TRAIN
  \/ current_mode = "biergarten" /\ ~weather_status.has
  \/ current_mode = "space"
       /\ (~space_weather_status.has \/ space_weather_status.kp_index >= 5)
  \/ current_mode = "stau" /\ ~traffic_status.has

\* C22: in the degraded branch of s_bahn, biergarten, space and stau every
\* handler invocation requests red when the colour found is not red and off
\* when it is red, and makes the loop sleep 0.5 s; so every tick changes the
\* colour, and the changes are to red from another colour and from red to
\* off: red, off, red, off on consecutive ticks, whatever the first colour.
C22_DegradedBlink ==
  /\ []((loop_pc = "release" /\ disp.done /\ DegradedBranch) =>
          /\ Shows(IF disp.color = "red" THEN "off" ELSE "red")
          /\ last_call.ok => current_color # disp.color
          /\ loop_sleep = 50
          /\ mode_state = disp.ms)
  /\ [][(DegradedBranch /\ Caller = "release"
          /\ current_color' # current_color)
         => \/ current_color # "red" /\ current_color' = "red"
            \/ current_color = "red" /\ current_color' = "off"]_vars

\* C22 witness: biergarten without weather data, found showing red, yellow
\* or green, is at its third tick at least: a tick found the lamp off, as a
\* tick before has left it, and has switched it to red
C22_Witness ==
  /\ loop_pc = "release" /\ disp.done
  /\ current_mode = "biergarten" /\ ~weather_status.has
  /\ disp.color = "off"
  /\ current_color = "red"
  /\ loop_sleep = 50
\* C23 as stated: a change of target_manual_color made while current_mode is
\* manual changes neither current_mode nor target_mode.
C23_ManualAsStated ==
  [][(target_manual_color' # target_manual_color /\ current_mode = "manual")
     => UNCHANGED << current_mode, target_mode >>]_vars

\* C23: at the end of every iteration in manual mode whose LED write did not
\* raise, current_color is the target_manual_color the iteration read; and a
\* change of target_manual_color made while manual is the mode and the mode
\* asked for changes neither current_mode nor target_mode, so that the next
\* iteration applies it without a transition.
C23_ManualApplied ==
  /\ []((loop_pc = "release" /\ current_mode = "manual") =>
          /\ last_call.color = target_manual_color
          /\ last_call.ok => current_color = target_manual_color
          /\ (trans.done => trans.mode # "manual"))
  /\ [][(target_manual_color' # target_manual_color
          /\ current_mode = "manual" /\ target_mode = "manual")
         => UNCHANGED << current_mode, target_mode, current_color >>]_vars
  /\ [][(loop_pc = "transition" /\ current_mode = "manual"
          /\ target_mode = "manual" /\ loop_pc' # loop_pc)
         => UNCHANGED << current_mode, trans, last_state_change_time >>]_vars

\* C23 witness: green was requested while manual mode showed red, and an
\* iteration without a transition has applied it
C23_Witness ==
  /\ loop_pc = "release" /\ current_mode = "manual" /\ ~trans.done
  /\ last_req.op = "set_manual_color" /\ last_req.arg = "green"
  /\ last_req.mode = "manual" /\ last_req.color = "red"
  /\ target_mode = "manual"
  /\ current_color = "green"
\* shutdown() has issued its all_off (controller.py 265) and the call has
\* returned
AllOffIssued ==
  \/ sd_pc = "all_off" /\ sd_ops = << >>
  \/ sd_pc \in {"cleanup_off", "done"}

\* the sink receives a write
SinkWritten == leds' # leds \/ sink_color' # sink_color \/ SlsHw \/ ShutdownHw

\* C24: during one shutdown all_off is issued to the sink exactly once (it is
\* not issued a second time), and it is the last write the sink receives (no
\* LED write follows it).
C24_AllOffOnceAndLast ==
  /\ [](sd_pc # "cleanup_off")
  /\ [][AllOffIssued => ~SinkWritten]_vars
\* C25: a signal field changes only in the storing step of its own monitor,
\* which changes no other signal field; a monitor's step changes no other
\* field of the shared state; and a step of anything else (the control loop
\* with its handlers, set_mode, set_manual_color, shutdown) changes no signal
\* field.
C25_ProducerFrame ==
  [][/\ \A m \in Monitors :
          SignalOf(m)' # SignalOf(m) =>
            /\ mon_pc[m] = "fetch" /\ mon_pc'[m] = "top"
            /\ \A n \in Monitors \ {m} :
                 SignalOf(n)' = SignalOf(n) /\ mon_pc'[n] = mon_pc[n]
     /\ mon_pc' # mon_pc => UNCHANGED stateVars
     /\ mon_pc' = mon_pc => UNCHANGED signalVars]_vars

\* C25 witness: the train poller has stored 13 minutes while the traffic
\* poller's delay, stored by its own step, is in place
C25_Witness ==
  /\ s_bahn_minutes_away = 13
  /\ traffic_status.has
  /\ ~weather_status.has /\ ~space_weather_status.has
  /\ iracing_light_status = "black"
\* the pollers, and the mode that shows the data of each
Pollers == Monitors \ {"iracing"}
ModeOf(m) ==
  CASE m = "s_bahn"  -> "s_bahn"
    [] m = "weather" -> "biergarten"
    [] m = "space"   -> "space"
    [] m = "traffic" -> "stau"

\* the last fetch of poller m failed
FetchFailed(m) == fetched[m].done /\ fetched[m].failed

C27_DisabledProducer ==
  /\ [](\A m \in CredMonitors :
          mon_pc[m] = "disabled" =>
            /\ ~HasData(m) /\ ~fetched[m].done
            /\ m = "s_bahn" => s_bahn_minutes_away = -1)
  /\ [][\A m \in CredMonitors :
          mon_pc[m] = "disabled" => mon_pc'[m] = "disabled"]_vars
  /\ [](\A m \in CredMonitors :
          (loop_pc = "release" /\ disp.done /\ current_mode = ModeOf(m)
           /\ mon_pc[m] = "disabled")
            => Blinks("red"))

\* C27 witness: the weather monitor has no key, the other pollers have used
\* up their polls and one of them holds data, and a biergarten tick that
\* found the lamp off (as a blink before left it) has switched it to red
C27_Witness ==
  /\ loop_pc = "release" /\ disp.done /\ current_mode = "biergarten"
  /\ mon_pc["weather"] = "disabled"
  /\ envLeft = 0
  /\ \E m \in Pollers : HasData(m)
  /\ disp.color = "off" /\ current_color = "red"
\* a set_light_state call has returned after an LED write of it raised
FailedReturn == loop_pc = "ret" /\ ~call.ok

\* C28: when an LED write inside set_light_state raises, the call returns to
\* its caller with current_color as the call found it and makes no further
\* write; the control loop goes on to the end of the iteration (or, at
\* start-up, into the loop) and stops only when running is false; and the
\* hardware is written again only by a later call that requests a colour
\* other than current_color.
C28_SinkFailure ==
  /\ [](FailedReturn =>
          /\ current_color = call.before
          /\ call.ops = << >>
          /\ cont.ret \in {"start_exit", "manual", "elapsed", "release"})
  /\ [][(call.ok /\ ~call'.ok) => (loop_pc' = "ret" /\ running' = running)]_vars
  /\ [](loop_pc = "sls_hw" => call.color # call.before)
  /\ [](loop_pc = "done" => ~running)
  /\ FailedReturn ~> (loop_pc \in {"sleep", "done"})

\* C28 witness: an LED write has raised, and the loop, still running, is at
\* the end of an iteration with the colour it had before the call
C28_Witness ==
  /\ loop_pc = "release" /\ running
  /\ last_call.color = "green" /\ ~last_call.ok
  /\ current_color = "unknown"

\* C29 as stated: iracing_light_status is always one of the valid colours; a
\* datagram whose payload is one of them makes the listener store it, and a
\* datagram with any other payload leaves every SharedState field as it was.
C29_PayloadAsStated ==
  /\ [](iracing_light_status \in ValidDatagrams)
  /\ [][\A d \in PollResults("iracing") :
          Store("iracing", "ok", d) =>
            IF \E c \in ValidDatagrams : d = << c >>
            THEN iracing_light_status' = d[1]
            ELSE UNCHANGED << stateVars, signalVars >>]_vars

\* C29: iracing_light_status is always one of the valid colours; a datagram
\* whose payload, decoded as UTF-8 and stripped of the white space at its
\* ends, is one of them makes the listener store that colour, and any other
\* datagram leaves every SharedState field as it was.
C29_StrippedPayload ==
  /\ [](iracing_light_status \in ValidDatagrams)
  /\ [][\A d \in PollResults("iracing") :
          Store("iracing", "ok", d) =>
            IF Color(d) \in ValidDatagrams
            THEN iracing_light_status' = Color(d)
                 /\ UNCHANGED << stateVars, s_bahn_minutes_away, weather_status,
                                 space_weather_status, traffic_status >>
            ELSE UNCHANGED << stateVars, signalVars >>]_vars

\* C29 witness: the listener has taken a datagram and holds red in place of
\* the black the state is constructed with, while racing mode follows it
C29_Witness ==
  /\ fetched["iracing"].done /\ mon_pc["iracing"] = "top"
  /\ iracing_light_status = "red"
  /\ current_mode = "racing" /\ mode_state.race_step >= 4
  /\ current_color = "red"

\* C30: a set_mode request whose mode is no mode and a set_manual_color
\* request whose colour is no colour change no SharedState field, and
\* target_mode, current_mode, target_manual_color and current_color hold
\* values of their enumerations only (with "unknown", the value before the
\* first write).
C30_UnknownTagIgnored ==
  /\ [][\A mode \in ReqModes \ Modes :
          SetMode(mode) => UNCHANGED << stateVars, signalVars >>]_vars
  /\ [][\A color \in ReqColors \ Colors :
          SetManualColor(color) => UNCHANGED << stateVars, signalVars >>]_vars
  /\ [](/\ target_mode \in Modes \cup {"unknown"}
        /\ current_mode \in Modes \cup {"unknown"}
        /\ target_manual_color \in Colors \cup {"unknown"}
        /\ current_color \in Colors \cup {"unknown"})

\* C31: a freshly created SharedState has current_mode = "unknown" and
\* current_color = "unknown".
C31_FreshState ==
  Constructed => (current_mode = "unknown" /\ current_color = "unknown")

\* the iterations before any set_light_state call other than the one of
\* run()'s start, with the mode the state was constructed with
StartupMode == last_call.ret = "start_exit" /\ current_mode = "auto"

\* C32: before its first iteration run() requests green and then stamps
\* last_state_change_time, whatever target_mode is; in the iterations that
\* follow, as long as the mode is the start-up mode, the handler finds the
\* colour green (the colour before the call when its LED write raised) and an
\* elapsed measured from that stamp.
C32_StartGreen ==
  /\ [][(loop_pc = "start" /\ loop_pc' # "start") =>
          (call'.color = "green" /\ cont'.stamp /\ cont'.ret = "start_exit")]_vars
  /\ [](loop_pc = "start_exit" =>
          /\ last_call.color = "green" /\ last_call.ret = "start_exit"
          /\ current_color = (IF last_call.ok THEN "green" ELSE "unknown")
          /\ last_state_change_time = [age |-> 0, stamp |-> 1])
  /\ []((loop_pc = "dispatch" /\ StartupMode) =>
          /\ current_color = (IF last_call.ok THEN "green" ELSE "unknown")
          /\ last_state_change_time.stamp = 1
          /\ elapsed = last_state_change_time.age)

\* C32 witness: the handler of auto is about to be invoked for the first
\* time, with the lamp green and no time passed since the stamp of run()
C32_Witness ==
  /\ loop_pc = "dispatch" /\ StartupMode /\ ~trans.done
  /\ current_color = "green" /\ last_call.ok
  /\ elapsed = 0 /\ last_state_change_time = [age |-> 0, stamp |-> 1]

\* the loop is inside an iteration, past the transition check of lines 211-212
PastTransition ==
  \/ loop_pc \in {"manual", "elapsed", "dispatch", "release"}
  \/ loop_pc \in {"sls", "sls_hw", "ret"}
       /\ cont.ret \in {"manual", "elapsed", "release"}

\* C33: an iteration that finds target_mode different from current_mode when
\* it makes the transition check under the lock sets current_mode to that
\* target_mode, and from there to the end of the iteration current_mode =
\* target_mode holds, in every iteration.
C33_PendingModeApplied ==
  /\ [][(loop_pc = "transition" /\ loop_pc' # "transition"
           /\ current_mode # target_mode) =>
          (current_mode' = target_mode /\ target_mode' = target_mode
           /\ trans'.done /\ trans'.mode = current_mode)]_vars
  /\ [](PastTransition => current_mode = target_mode)
  /\ []((loop_pc = "release" /\ trans.done) =>
          (current_mode = target_mode /\ trans.mode # current_mode))

\* C33 witness: after party had been entered, a second request for party was
\* pending when the iteration took the lock; at its end the mode is idle
C33_Witness ==
  /\ loop_pc = "release" /\ trans.done /\ trans.mode = "party"
  /\ last_req.op = "set_mode" /\ last_req.arg = "party"
  /\ current_mode = "idle" /\ target_mode = "idle"

\* C34: set_manual_color always leaves target_mode = manual and changes
\* neither current_mode nor current_color; in manual mode showing the colour
\* requested it sets target_manual_color to off, also when another mode was
\* pending, whose request is dropped.
C34_ManualDropsPending ==
  /\ [][\A color \in ReqColors :
          SetManualColor(color) =>
            /\ target_mode' = "manual"
            /\ UNCHANGED << current_mode, current_color >>
            /\ (current_mode = "manual" /\ current_color = color)
                 => target_manual_color' = "off"]_vars
  /\ [](last_req.op = "set_manual_color" => target_mode = "manual")
  /\ []((last_req.op = "set_manual_color" /\ last_req.mode = "manual"
         /\ last_req.color = last_req.arg) =>
          /\ target_manual_color = "off"
          /\ current_mode = "manual")

\* C34 witness: manual mode showed green while party was pending; the request
\* for green has set the target colour to off and the target mode to manual,
\* and the loop, without any transition, has switched the lamp off
C34_Witness ==
  /\ last_req.op = "set_manual_color" /\ last_req.arg = "green"
  /\ last_req.mode = "manual" /\ last_req.color = "green"
  /\ last_req.target = "party"
  /\ target_mode = "manual" /\ target_manual_color = "off"
  /\ loop_pc = "release" /\ ~trans.done
  /\ current_mode = "manual" /\ current_color = "off"

\* C35: a set_mode(m) made while current_mode differs from m leaves
\* target_mode = m, also when target_mode was m already because an earlier
\* set_mode(m) has not been taken up by the loop yet: the second call does
\* not toggle the request off.
C35_RepeatedRequestKept ==
  /\ [][\A mode \in ReqModes :
          (SetMode(mode) /\ current_mode # mode) =>
            (target_mode' = mode /\ current_mode' = current_mode)]_vars
  /\ []((last_req.op = "set_mode" /\ last_req.mode # last_req.arg
         /\ last_req.target = last_req.arg) =>
          target_mode = last_req.arg)

\* C35 witness: party was requested twice while the mode was auto, the second
\* time with party pending, and party is still the target
C35_Witness ==
  /\ last_req.op = "set_mode" /\ last_req.arg = "party"
  /\ last_req.mode = "auto" /\ last_req.target = "party"
  /\ current_mode = "auto" /\ target_mode = "party"

\* C36: in every state in which get_status can take the lock, once run() has
\* begun and unless the last LED write raised, current_mode = idle implies
\* current_color = off; the states of an iteration in which the mode is idle
\* already and the lamp not yet off are states in which the loop holds the
\* lock.
C36_SnapshotConsistent ==
  /\ []((CanAcquire("http") /\ loop_pc # "start" /\ last_call.ok
         /\ current_mode = "idle") => current_color = "off")
  /\ []((current_mode = "idle" /\ current_color # "off" /\ call.ok
         /\ (call.active \/ last_call.ok))
          => (lock.owner = "loop" /\ cont.ret = "manual"))

\* C36 witness: idle was entered from a mode that showed a colour, the lamp
\* was switched off by the entry action, and the lock is free
C36_Witness ==
  /\ CanAcquire("http") /\ loop_pc = "sleep"
  /\ current_mode = "idle" /\ current_color = "off"
  /\ last_call.ret = "manual" /\ last_call.wrote /\ last_call.ok

\* C37: with every LED write succeeding, whenever the handler of auto is
\* invoked and at the end of every iteration in auto, current_color is one of
\* green, yellow, red, red_and_yellow; next_auto_state is red whenever the
\* handler finds yellow and green whenever it finds red_and_yellow.
C37_AutoColors ==
  /\ []((loop_pc \in {"dispatch", "release"} /\ current_mode = "auto") =>
          current_color \in {"green", "yellow", "red", "red_and_yellow"})
  /\ []((loop_pc = "dispatch" /\ current_mode = "auto") =>
          /\ current_color = "yellow" => mode_state.next_auto_state = "red"
          /\ current_color = "red_and_yellow"
               => mode_state.next_auto_state = "green")
  /\ [][(loop_pc = "dispatch" /\ loop_pc' # "dispatch"
          /\ current_mode = "auto"
          /\ current_color \in {"yellow", "red_and_yellow"}
          /\ elapsed > (IF current_color = "yellow" THEN AUTO_YELLOW_DURATION
                        ELSE AUTO_RED_YELLOW_DURATION)) =>
          (loop_pc' = "sls"
           /\ call'.color = (IF current_color = "yellow" THEN "red"
                             ELSE "green"))]_vars

\* C37 witness: auto was entered by a transition from a mode that had left
\* the lamp off, and its handler, finding red_and_yellow after more than
\* 2 s, has read green from next_auto_state and shown it
C37_Witness ==
  /\ loop_pc = "release" /\ current_mode = "auto"
  /\ last_req.op = "set_mode" /\ last_req.arg = "auto" /\ last_req.mode = "idle"
  /\ disp.done /\ disp.color = "red_and_yellow"
  /\ disp.ms.next_auto_state = "green"
  /\ current_color = "green"

\* C38: with every LED write succeeding, in sos mode: once the handler has
\* advanced since the entry (the last set_light_state call is the handler's),
\* current_color at the end of an iteration is the state of pattern step
\* sos_index; between the entry (the last call is the entry action's) and the
\* first advance the lamp is off at step 0, whose state is all_on; and the
\* first advance goes to step 1 and stamps last_state_change_time while the
\* colour stays off, the sink not being written.
C38_SosColor ==
  /\ []((loop_pc = "release" /\ current_mode = "sos"
         /\ last_call.ret = "release") =>
          current_color = sos_pattern[mode_state.sos_index + 1].state)
  /\ []((loop_pc \in {"dispatch", "release"} /\ current_mode = "sos"
         /\ last_call.ret = "manual") =>
          /\ current_color = "off" /\ mode_state.sos_index = 0
          /\ sos_pattern[1].state = "all_on")
  /\ [][(current_mode = "sos" /\ last_call.ret = "manual"
         /\ last_call'.ret = "release") =>
          /\ current_color = "off" /\ current_color' = "off"
          /\ ~last_call'.wrote
          /\ mode_state'.sos_index = 1
          /\ last_state_change_time'.stamp # last_state_change_time.stamp]_vars

\* C38 witness: sos was entered by a request, its handler has advanced from
\* step 0 to step 1 without writing the sink, and the lamp is still off
C38_Witness ==
  /\ loop_pc = "release" /\ current_mode = "sos"
  /\ last_req.op = "set_mode" /\ last_req.arg = "sos"
  /\ last_call.ret = "release" /\ ~last_call.wrote
  /\ disp.done /\ disp.ms.sos_index = 0 /\ mode_state.sos_index = 1
  /\ current_color = "off"

\* the modes whose handler waits for the first phase to elapse, and how long
\* that phase is (modes.py 16, 31, 52; state.py 36)
FirstPhase(mode) ==
  CASE mode = "auto"   -> AUTO_RED_DURATION
    [] mode = "sos"    -> sos_pattern[1].duration
    [] mode = "racing" -> RACING_STEP_DELAY

\* C39: in the iteration that makes a transition the handler is dispatched
\* with an elapsed measured from the transition, and for auto, sos and racing
\* it does not advance; from the entry until the first advance the lamp shows
\* the colour of the entry action (red for auto, off for sos and racing),
\* unless the LED write of the entry action raised; and the first advance is
\* made with an elapsed above 20 s, 0.2 s and 1 s.
C39_TransitionRestartsTimer ==
  /\ []((loop_pc = "dispatch" /\ trans.done) =>
          (elapsed = 0 /\ last_state_change_time.age = 0))
  /\ []((loop_pc = "release" /\ trans.done
         /\ current_mode \in {"auto", "sos", "racing"}) =>
          (last_call.ret = "manual" /\ mode_state = disp.ms))
  /\ []((current_mode \in {"auto", "sos", "racing"} /\ ~call.active
         /\ last_call.ret = "manual" /\ last_call.ok) =>
          current_color = (IF current_mode = "auto" THEN "red" ELSE "off"))
  /\ [][(current_mode \in {"auto", "sos", "racing"}
         /\ last_call.ret = "manual" /\ last_call.ok
         /\ last_call'.ret = "release") =>
          elapsed > FirstPhase(current_mode)]_vars

\* C39 witness: racing was entered by a request; in the iteration of the
\* transition the handler found no time elapsed and left race_step at 0, in
\* the next one it found 0.2 s and waited, and now, with more than 1 s
\* elapsed, it has taken the first countdown step
C39_Witness ==
  /\ loop_pc = "release" /\ current_mode = "racing" /\ ~trans.done
  /\ last_req.op = "set_mode" /\ last_req.arg = "racing"
  /\ last_call.ret = "release" /\ last_call.ok
  /\ disp.done /\ disp.ms.race_step = 0 /\ disp.color = "off"
  /\ mode_state.race_step = 1 /\ current_color = "red"
  /\ elapsed > RACING_STEP_DELAY

\* state.py 68-81: the status snapshot
get_status_snapshot ==
  [color |-> current_color, mode |-> current_mode,
   s_bahn_minutes |-> s_bahn_minutes_away, weather |-> weather_status,
   race_step |-> mode_state.race_step,
   space_weather |-> space_weather_status, traffic |-> traffic_status]

\* C40: race_step is within 0..4; it is changed only by the entry action of
\* racing, to 0, and by the racing handler, by +1 from a value below 4; and
\* while the mode is not racing it keeps its value, which the status
\* snapshot shows as race_step.
C40_RaceStepRange ==
  /\ [](mode_state.race_step \in 0..4)
  /\ [][mode_state'.race_step # mode_state.race_step =>
          \/ /\ loop_pc = "transition" /\ target_mode = "racing"
             /\ current_mode' = "racing"
             /\ mode_state'.race_step = 0
          \/ /\ current_mode = "racing" /\ disp'.done /\ lock.owner = "loop"
             /\ mode_state.race_step < 4
             /\ mode_state'.race_step = mode_state.race_step + 1]_vars
  /\ [][(current_mode # "racing" /\ current_mode' # "racing") =>
          mode_state'.race_step = mode_state.race_step]_vars
  /\ [](get_status_snapshot.race_step = mode_state.race_step)

\* C40 witness: the countdown of racing has been walked to step 4, another
\* mode has been entered, and the snapshot still shows race_step 4
C40_Witness ==
  /\ last_req.op = "set_mode" /\ last_req.mode = "racing"
  /\ loop_pc = "sleep" /\ current_mode \notin {"racing", "auto"}
  /\ get_status_snapshot.race_step = 4
  /\ get_status_snapshot.mode = current_mode
====
